---- MODULE Spec2Model ----
(***************************************************************************)
(* Verification model of the ContaDash ingestion pipeline:                 *)
(*   - the upload log, the stored files and the memoized multi-period      *)
(*     merge (app.py, database.py),                                        *)
(*   - the number normalizer, the category classifier and the row          *)
(*     emitters of the bank-statement parsers (bank_analyzer.py),          *)
(*   - the workbook loaders (data_loader.py).                              *)
(* Script runs are serialized (Streamlit runs a script to completion per   *)
(* interaction): a handler is followed step by step, because an exception  *)
(* or an early return can end it half-way, and the merged tables are read  *)
(* between handlers, where the wall clock advances as well.                 *)
(***************************************************************************)
EXTENDS Integers, Sequences, FiniteSets, TLC

VARIABLES now, disk, uploaded_files, mergedCache, loadCache, run, nsaved,
          arg, res

vars == <<now, disk, uploaded_files, mergedCache, loadCache, run, nsaved,
          arg, res>>

(***************************************************************************)
(* Bounds                                                                  *)
(***************************************************************************)
MaxTime == 1
MaxUploads == 2

(***************************************************************************)
(* Companies, report types, file names, file contents                      *)
(***************************************************************************)
Companies == {1, 2}

nit(c) == IF c = 1 THEN "900111" ELSE "900222"

Nits == {nit(c) : c \in Companies}

ReportTypes == {"ventas", "compras", "nomina"}

InvoiceTypes == {"ventas", "compras"}

Filenames == {"reporte.xlsx", "DIAN.xlsx"}

NaN == "nan"

\* A stored file: kind "absent" (no such path), "corrupt" (read_excel raises)
\* or "xlsx"; keyed = the sheet carries the natural-key column(s) of its
\* report type (CUFE/CUDE, or NIT Empleado + Periodo); rows = its data rows.
NoFile == [kind |-> "absent", keyed |-> FALSE, rows |-> <<>>]

FileB == [kind |-> "xlsx", keyed |-> TRUE,
          rows |-> <<[k |-> "ABC123", v |-> 2], [k |-> "XYZ", v |-> 2]>>]

FileNoKey == [kind |-> "xlsx", keyed |-> FALSE,
              rows |-> <<[k |-> NaN, v |-> 3], [k |-> NaN, v |-> 4]>>]

FileCorrupt == [kind |-> "corrupt", keyed |-> FALSE, rows |-> <<>>]

\* a payroll sheet whose employee-id header reads "NIT Empleado": load_nomina
\* renames that column to "Nombre Empleado" (data_loader.py, lines 385-388),
\* so the loaded table lacks the key column although its rows carry the pair
FileLongHeader == [kind |-> "xlsx", keyed |-> FALSE,
                   rows |-> <<[k |-> "ABC123", v |-> 5]>>]

UploadContents == {FileB, FileNoKey, FileCorrupt}

\* what the users upload by hand: (company, report type, file)
ManualInputs ==
    ([company : {1}, rt : {"ventas"}, data : UploadContents]
     \cup [company : {1}, rt : {"nomina"},
           data : {FileB, FileCorrupt, FileLongHeader}]
     \cup [company : {2}, rt : {"ventas"}, data : {FileB}])

\* download_invoices returns a non-empty load_file table, written by to_excel
DianContents == {FileB}

Paths == [nit : Nits, rt : ReportTypes, ts : 0..MaxTime, fn : Filenames]

EmptyFrame == [keyed |-> FALSE, rows |-> <<>>]

NoEntry == [valid |-> FALSE, frame |-> EmptyFrame]

\* an entry of the _load_all_merged memo: rows = the table returned; hasKey =
\* the table has the key column(s); concat (the table before deduplication)
\* and order (the ids of the uploads read, in the order they were read) are
\* history fields, as are src in a row (the upload the row was loaded for)
\* and pair (the natural key the sheet row carries, whatever its header).
NoMerged == [valid |-> FALSE, rows |-> <<>>, hasKey |-> FALSE, concat |-> <<>>,
             order |-> <<>>]

Idle == [pc |-> "idle", company |-> 0, rt |-> "", fn |-> "", data |-> NoFile,
         path |-> <<>>, rows |-> 0, todo |-> <<>>, anyOk |-> FALSE]

(***************************************************************************)
(* database.py                                                             *)
(***************************************************************************)
\* get_upload_dir + save_uploaded_file: uploads/<nit>/<report_type>/<ts>_<fn>
get_upload_dir_shared(n, t) == [nit |-> "900111", rt |-> t]

get_upload_dir(n, t) == [nit |-> n, rt |-> t]

save_uploaded_file(n, t, fn, clock) ==
    LET d == get_upload_dir(n, t)
    IN  [nit |-> d.nit, rt |-> d.rt, ts |-> clock, fn |-> fn]

\* save_upload_meta: INSERT; id is AUTOINCREMENT, uploaded_at is datetime('now').
\* data is a history field: the bytes handed to save_uploaded_file.
save_upload_meta(c, t, fn, p, n, d) ==
    Append(uploaded_files,
           [id |-> Len(uploaded_files) + 1, company_id |-> c,
            report_type |-> t, filename |-> fn, filepath |-> p, rows |-> n,
            uploaded_at |-> now, data |-> d])

Matches(c, t) ==
    {i \in 1..Len(uploaded_files) :
        /\ uploaded_files[i].company_id = c
        /\ uploaded_files[i].report_type = t}

\* get_uploads: ORDER BY uploaded_at DESC; the order of rows with equal
\* uploaded_at is not determined by the query.
RECURSIVE NewestFirst(_)
NewestFirst(idx) ==
    IF idx = {} THEN {<<>>}
    ELSE UNION {{<<uploaded_files[i]>> \o rest : rest \in NewestFirst(idx \ {i})} :
                  i \in {j \in idx : \A k \in idx :
                            uploaded_files[j].uploaded_at >=
                            uploaded_files[k].uploaded_at}}

get_uploads(c, t) == NewestFirst(Matches(c, t))

(***************************************************************************)
(* data_loader.py loaders, as far as the merge sees them                   *)
(***************************************************************************)
\* load_file raises when read_excel cannot read the file; load_nomina,
\* load_exogena and load_retenciones catch that and return an empty table.
LoaderRaises(t, content) ==
    /\ t \notin {"nomina", "exogena", "retenciones"}
    /\ content.kind = "corrupt"

Parse(content) ==
    IF content.kind = "xlsx"
    THEN [keyed |-> content.keyed, rows |-> content.rows]
    ELSE EmptyFrame

\* @st.cache_data on every loader: a hit returns the remembered table
Raises(t, p) == ~loadCache[p].valid /\ LoaderRaises(t, disk[p])

Loaded(p) == IF loadCache[p].valid THEN loadCache[p].frame ELSE Parse(disk[p])

(***************************************************************************)
(* app.py: _load_all_merged                                                *)
(***************************************************************************)
Reverse(s) == [i \in 1..Len(s) |-> s[Len(s) + 1 - i]]

RECURSIVE Concat(_)
Concat(ms) ==
    IF ms = <<>> THEN <<>>
    ELSE LET m == Head(ms)
             f == Loaded(m.filepath)
         IN  [i \in 1..Len(f.rows) |->
                 [k |-> IF f.keyed THEN f.rows[i].k ELSE NaN,
                  v |-> f.rows[i].v, src |-> m.id, pair |-> f.rows[i].k]]
             \o Concat(Tail(ms))

\* drop_duplicates(subset=[key], keep="first"); missing keys compare equal
RECURSIVE KeepFirst(_, _)
KeepFirst(rows, seen) ==
    IF rows = <<>> THEN <<>>
    ELSE IF Head(rows).k \in seen THEN KeepFirst(Tail(rows), seen)
    ELSE <<Head(rows)>> \o KeepFirst(Tail(rows), seen \cup {Head(rows).k})

\* (the bound r holds the table, evaluated once)
drop_duplicates(rows) ==
    CHOOSE out \in {KeepFirst(r, {}) : r \in {rows}} : TRUE

Usable(t, m) ==
    /\ disk[m.filepath].kind # "absent"
    /\ ~Raises(t, m.filepath)
    /\ Loaded(m.filepath).rows # <<>>

\* lines 265-284 for the list returned by get_uploads (newest first)
MergeOf(t, uploads) ==
    LET oldest == Reverse(uploads)
        frames == SelectSeq(oldest, LAMBDA m : Usable(t, m))
        merged == Concat(frames)
        hasKey == \E i \in 1..Len(frames) : Loaded(frames[i].filepath).keyed
        out    == IF t \in InvoiceTypes /\ hasKey THEN drop_duplicates(merged)
                  ELSE IF t = "nomina" /\ hasKey THEN drop_duplicates(merged)
                  ELSE merged
    IN  [valid |-> TRUE, rows |-> out, hasKey |-> hasKey, concat |-> merged,
         order |-> [i \in 1..Len(oldest) |-> oldest[i].id]]

\* the loader memo after the merge has called the loader on every file that
\* exists and did not raise
MemoAfter(t, uploads) ==
    [p \in Paths |->
        IF /\ \E i \in 1..Len(uploads) : uploads[i].filepath = p
           /\ disk[p].kind # "absent"
           /\ ~Raises(t, p)
        THEN [valid |-> TRUE, frame |-> Loaded(p)]
        ELSE loadCache[p]]

TypeOK ==
    /\ now \in 0..MaxTime
    /\ nsaved \in 0..MaxUploads
    /\ run.pc \in {"idle", "hu_load", "hu_meta", "hu_clear", "id_loop", "id_meta"}
    /\ Len(uploaded_files) <= MaxUploads

(***************************************************************************)
(* Initial state: empty upload log, empty storage, cold caches             *)
(***************************************************************************)
InitUpload ==
    /\ now = 0
    /\ disk = [p \in Paths |-> NoFile]
    /\ uploaded_files = <<>>
    /\ mergedCache = [c \in Companies |-> [t \in ReportTypes |-> NoMerged]]
    /\ loadCache = [p \in Paths |-> NoEntry]
    /\ run = Idle
    /\ nsaved = 0

\* arg and res hold the argument and the result of a bank_analyzer function
\* under study; the upload pipeline leaves them alone
Init ==
    /\ InitUpload
    /\ arg = <<>>
    /\ res = <<>>

\* the wall clock advances (seconds); a handler takes less than a second
Tick ==
    /\ run.pc = "idle"
    /\ now < MaxTime
    /\ now' = now + 1
    /\ UNCHANGED <<disk, uploaded_files, mergedCache, loadCache, run, nsaved,
                   arg, res>>

(***************************************************************************)
(* app.py: _handle_upload, one action per statement group                  *)
(***************************************************************************)
HU_Save_unwritten ==
    /\ run.pc = "idle"
    /\ nsaved < MaxUploads
    /\ \E u \in ManualInputs :
         LET p == save_uploaded_file(nit(u.company), u.rt, "reporte.xlsx", now)
         IN  run' = [Idle EXCEPT !.pc = "hu_load", !.company = u.company,
                                 !.rt = u.rt, !.fn = "reporte.xlsx",
                                 !.data = u.data, !.path = p]
    /\ nsaved' = nsaved + 1
    /\ UNCHANGED <<now, disk, uploaded_files, mergedCache, loadCache, arg, res>>

\* lines 290-291: data = uploaded_file.read(); path = save_uploaded_file(...)
HU_Save ==
    /\ run.pc = "idle"
    /\ nsaved < MaxUploads
    /\ \E u \in ManualInputs :
         LET p == save_uploaded_file(nit(u.company), u.rt, "reporte.xlsx", now)
         IN  /\ disk' = [disk EXCEPT ![p] = u.data]
             /\ run' = [Idle EXCEPT !.pc = "hu_load", !.company = u.company,
                                    !.rt = u.rt, !.fn = "reporte.xlsx",
                                    !.data = u.data, !.path = p]
    /\ nsaved' = nsaved + 1
    /\ UNCHANGED <<now, uploaded_files, mergedCache, loadCache, arg, res>>

\* lines 292-293: dftmp = load_file(path) if ventas/compras else DataFrame()
HU_Load ==
    /\ run.pc = "hu_load"
    /\ IF run.rt \in InvoiceTypes
       THEN IF Raises("ventas", run.path)
            THEN \* the exception leaves the handler: nothing is recorded
                 /\ run' = Idle
                 /\ UNCHANGED loadCache
            ELSE /\ run' = [run EXCEPT !.pc = "hu_meta",
                                       !.rows = Len(Loaded(run.path).rows)]
                 /\ loadCache' = [loadCache EXCEPT ![run.path] =
                                     [valid |-> TRUE, frame |-> Loaded(run.path)]]
       ELSE /\ run' = [run EXCEPT !.pc = "hu_meta", !.rows = 0]
            /\ UNCHANGED loadCache
    /\ UNCHANGED <<now, disk, uploaded_files, mergedCache, nsaved, arg, res>>

\* lines 294-295: save_upload_meta(...); log_action(...)
HU_Meta ==
    /\ run.pc = "hu_meta"
    /\ uploaded_files' = save_upload_meta(run.company, run.rt, run.fn, run.path,
                                          run.rows, run.data)
    /\ run' = [run EXCEPT !.pc = "hu_clear"]
    /\ UNCHANGED <<now, disk, mergedCache, loadCache, nsaved, arg, res>>

\* lines 296-302: _load_all_merged.clear(); ...; st.rerun()
HU_Clear ==
    /\ run.pc = "hu_clear"
    /\ mergedCache' = [c \in Companies |-> [t \in ReportTypes |-> NoMerged]]
    /\ run' = Idle
    /\ UNCHANGED <<now, disk, uploaded_files, loadCache, nsaved, arg, res>>

(***************************************************************************)
(* app.py: _import_from_dian                                               *)
(***************************************************************************)
\* the multiselect default; a type left out behaves as a type skipped
TiposSel == {<<"ventas", "compras">>}

\* the companies whose users import from the portal
DianCompanies == {1}

\* lines 313-325: authenticated session, loop about to start
ID_Start ==
    /\ run.pc = "idle"
    /\ \E c \in DianCompanies, sel \in TiposSel :
         run' = [Idle EXCEPT !.pc = "id_loop", !.company = c, !.todo = sel]
    /\ UNCHANGED <<now, disk, uploaded_files, mergedCache, loadCache, nsaved,
                   arg, res>>

\* lines 336-339: download_invoices raises PermissionError -> return
ID_Expired ==
    /\ run.pc = "id_loop"
    /\ run.todo # <<>>
    /\ run' = Idle
    /\ UNCHANGED <<now, disk, uploaded_files, mergedCache, loadCache, nsaved,
                   arg, res>>

\* lines 340-347: another exception, or no invoices found -> continue
ID_Skip ==
    /\ run.pc = "id_loop"
    /\ run.todo # <<>>
    /\ run' = [run EXCEPT !.todo = Tail(run.todo)]
    /\ UNCHANGED <<now, disk, uploaded_files, mergedCache, loadCache, nsaved,
                   arg, res>>

\* lines 351-356: the downloaded table is written with save_uploaded_file
ID_Save ==
    /\ run.pc = "id_loop"
    /\ run.todo # <<>>
    /\ nsaved < MaxUploads
    /\ \E d \in DianContents :
         LET t == Head(run.todo)
             p == save_uploaded_file(nit(run.company), t, "DIAN.xlsx", now)
         IN  /\ disk' = [disk EXCEPT ![p] = d]
             /\ run' = [run EXCEPT !.pc = "id_meta", !.rt = t, !.fn = "DIAN.xlsx",
                                   !.data = d, !.path = p, !.rows = Len(d.rows)]
    /\ nsaved' = nsaved + 1
    /\ UNCHANGED <<now, uploaded_files, mergedCache, loadCache, arg, res>>

\* lines 357-361: save_upload_meta(...); log_action(...); any_ok = True
ID_Meta ==
    /\ run.pc = "id_meta"
    /\ uploaded_files' = save_upload_meta(run.company, run.rt, run.fn, run.path,
                                          run.rows, run.data)
    /\ run' = [run EXCEPT !.pc = "id_loop", !.todo = Tail(run.todo),
                          !.anyOk = TRUE]
    /\ UNCHANGED <<now, disk, mergedCache, loadCache, nsaved, arg, res>>

\* lines 363-379: after the loop, clear the caches when something was imported
ID_End ==
    /\ run.pc = "id_loop"
    /\ run.todo = <<>>
    /\ mergedCache' = IF run.anyOk
                      THEN [c \in Companies |-> [t \in ReportTypes |-> NoMerged]]
                      ELSE mergedCache
    /\ run' = Idle
    /\ UNCHANGED <<now, disk, uploaded_files, loadCache, nsaved, arg, res>>

(***************************************************************************)
(* app.py: _cached_analysis(company_id, ...), the only caller of           *)
(* _load_all_merged: one merge per report type, each through the memo of   *)
(* _load_all_merged. Both memos are filled here and cleared together, so   *)
(* mergedCache[c][t] is at once the entry of _load_all_merged(c, t) and    *)
(* the raw table kept inside the entry of _cached_analysis.                *)
(***************************************************************************)
_load_all_merged(c, t, uploads) ==
    IF mergedCache[c][t].valid THEN mergedCache[c][t] ELSE MergeOf(t, uploads)

_cached_analysis ==
    /\ run.pc = "idle"
    /\ \E c \in Companies :
      \E uv \in get_uploads(c, "ventas"), uc \in get_uploads(c, "compras"),
         un \in get_uploads(c, "nomina") :
        LET ups == [t \in ReportTypes |->
                      IF t = "ventas" THEN uv ELSE IF t = "compras" THEN uc ELSE un]
        IN  /\ mergedCache' = [mergedCache EXCEPT ![c] =
                  [t \in ReportTypes |-> _load_all_merged(c, t, ups[t])]]
            /\ loadCache' = [p \in Paths |->
                  IF mergedCache[c][p.rt].valid THEN loadCache[p]
                  ELSE MemoAfter(p.rt, ups[p.rt])[p]]
            /\ UNCHANGED <<now, disk, uploaded_files, run, nsaved, arg, res>>

\* the server process restarts: the st.cache_data memos live in its memory,
\* the stored files and the database do not
Restart ==
    /\ run.pc = "idle"
    /\ mergedCache' = [c \in Companies |-> [t \in ReportTypes |-> NoMerged]]
    /\ loadCache' = [p \in Paths |-> NoEntry]
    /\ UNCHANGED <<now, disk, uploaded_files, run, nsaved, arg, res>>

Next ==
    \/ Tick
    \/ Restart
    \/ HU_Save
    \/ HU_Load
    \/ HU_Meta
    \/ HU_Clear
    \/ ID_Start
    \/ ID_Expired
    \/ ID_Skip
    \/ ID_Save
    \/ ID_Meta
    \/ ID_End
    \/ _cached_analysis

Spec == Init /\ [][Next]_vars

(***************************************************************************)
(* Properties of the upload log and of the merge                           *)
(***************************************************************************)
Ids(e) == {e.order[i] : i \in 1..Len(e.order)}

\* what a call of _load_all_merged(c, t) computes in the current state, for
\* every order get_uploads may return
FreshMerge(c, t) == {MergeOf(t, ups).rows : ups \in get_uploads(c, t)}

\* C1: in a merged ventas/compras table no CUFE/CUDE value occurs twice, and
\* the row kept for a CUFE/CUDE comes from the oldest upload (smallest id)
\* that contributed a row with that value.
C1_OldestCufeSurvives ==
    \A c \in Companies, t \in InvoiceTypes :
        LET e == mergedCache[c][t]
        IN  (e.valid /\ e.hasKey) =>
              /\ \A i, j \in 1..Len(e.rows) :
                    i # j => e.rows[i].k # e.rows[j].k
              /\ \A i \in 1..Len(e.rows), j \in 1..Len(e.concat) :
                    e.concat[j].k = e.rows[i].k => e.rows[i].src <= e.concat[j].src

\* C2: once a handler that recorded an upload has returned, no memoized merge
\* result lacks a recorded upload of its (company, report type).
C2_CacheInvalidatedAfterUpload ==
    run.pc = "idle" =>
        \A c \in Companies, t \in ReportTypes :
            mergedCache[c][t].valid => Ids(mergedCache[c][t]) = Matches(c, t)

\* C4: uploading a file of the history once more does not change the number
\* of rows of the merged ventas/compras table.
C4_SameFileTwiceSameCount ==
    \A c \in Companies, t \in InvoiceTypes :
        \A ups \in get_uploads(c, t) :
            \A i \in 1..Len(ups) :
                LET again == [ups[i] EXCEPT !.id = Len(uploaded_files) + 1,
                                            !.uploaded_at = now]
                IN  Len(MergeOf(t, <<again>> \o ups).rows) =
                    Len(MergeOf(t, ups).rows)

\* C16: a merged nomina table holds at most one row per (NIT Empleado,
\* Periodo) pair, and the row kept for a pair comes from the oldest upload
\* (smallest id) that holds the pair.
C16_NominaOnePerPair ==
    \A c \in Companies :
        LET e == mergedCache[c]["nomina"]
        IN  e.valid =>
              /\ \A i, j \in 1..Len(e.rows) :
                    i # j => e.rows[i].pair # e.rows[j].pair
              /\ \A i \in 1..Len(e.rows), j \in 1..Len(e.concat) :
                    e.concat[j].pair = e.rows[i].pair
                        => e.rows[i].src <= e.concat[j].src

\* C5: every uploaded_files record names a file that has been written, and a
\* record is appended only when its file was already on disk before the step.
C5_FileBeforeMeta ==
    /\ [](\A i \in 1..Len(uploaded_files) :
            disk[uploaded_files[i].filepath].kind # "absent")
    /\ [][\A i \in 1..Len(uploaded_files') :
            i > Len(uploaded_files) =>
                disk[uploaded_files'[i].filepath].kind # "absent"]_vars

\* a ventas parse failed between the write and the record: the file is on
\* disk, no record names it, and the log holds an earlier upload
C5_Witness ==
    /\ run.pc = "idle"
    /\ Len(uploaded_files) >= 1
    /\ \E p \in Paths :
         /\ disk[p].kind = "corrupt"
         /\ p.rt = "ventas"
         /\ \A i \in 1..Len(uploaded_files) : uploaded_files[i].filepath # p

\* C6: the stored file of every recorded upload holds the bytes of that
\* upload, and uploaded_files only grows, its records unchanged.
C6_ArtifactsImmutable ==
    /\ [](\A i \in 1..Len(uploaded_files) :
            disk[uploaded_files[i].filepath] = uploaded_files[i].data)
    /\ [][/\ Len(uploaded_files') >= Len(uploaded_files)
          /\ \A i \in 1..Len(uploaded_files) :
                uploaded_files'[i] = uploaded_files[i]]_vars

\* C7: the table before deduplication holds the rows of the artifacts in
\* upload order (ascending id), and holds rows of every read artifact whose
\* stored file is the uploaded one and parses to a non-empty table.
C7_SkipBadKeepOrder ==
    \A c \in Companies, t \in ReportTypes :
        LET e == mergedCache[c][t]
        IN  e.valid =>
              /\ \A i, j \in 1..Len(e.concat) :
                    i < j => e.concat[i].src <= e.concat[j].src
              /\ \A id \in Ids(e) :
                    (/\ disk[uploaded_files[id].filepath] = uploaded_files[id].data
                     /\ Parse(uploaded_files[id].data).rows # <<>>)
                    => \E i \in 1..Len(e.concat) : e.concat[i].src = id

C28_MissingKeySurvives ==
    \A c \in Companies : \A t \in InvoiceTypes :
        LET m == mergedCache[c][t]
        IN  m.valid =>
                \A i \in 1..Len(m.concat) :
                    m.concat[i].k = NaN =>
                        \E j \in 1..Len(m.rows) :
                            m.rows[j].k = NaN /\ m.rows[j].v = m.concat[i].v

\* C29: get_uploads lists the uploads of a (company, report type) strictly
\* newest first, the later recorded before the earlier also when both were
\* recorded in the same second, and every merge has read the artifacts in
\* the order in which they were recorded
C29_RecordingOrder ==
    \A c \in Companies : \A t \in ReportTypes :
        /\ \A ups \in get_uploads(c, t) :
               \A i \in 1..Len(ups) : \A j \in 1..Len(ups) :
                   i < j => ups[i].id > ups[j].id
        /\ LET read == mergedCache[c][t].order
           IN  \A i \in 1..Len(read) : \A j \in 1..Len(read) :
                   i < j => read[i] < read[j]

(***************************************************************************)
(* bank_analyzer.py: text. A string is a sequence of one-character         *)
(* strings; "O'" and "o'" stand for the letter O with an acute accent.     *)
(***************************************************************************)
DigitChars == <<"0", "1", "2", "3", "4", "5", "6", "7", "8", "9">>

IsDigit(ch) == \E d \in 1..10 : DigitChars[d] = ch

AllDigits(s) == \A i \in 1..Len(s) : IsDigit(s[i])

RECURSIVE Flatten(_)
Flatten(parts) ==
    IF parts = <<>> THEN <<>> ELSE Head(parts) \o Flatten(Tail(parts))

\* str.strip()
RECURSIVE strip(_)
strip(s) ==
    IF s = <<>> THEN s
    ELSE IF Head(s) = " " THEN strip(Tail(s))
    ELSE IF s[Len(s)] = " " THEN strip(SubSeq(s, 1, Len(s) - 1))
    ELSE s

\* s.replace(ch, '')
remove(s, ch) == SelectSeq(s, LAMBDA c : c # ch)

\* s.replace(a, b) for single characters
replace(s, a, b) == [i \in 1..Len(s) |-> IF s[i] = a THEN b ELSE s[i]]

\* k in s
Contains(s, k) ==
    \E i \in 1..(Len(s) - Len(k) + 1) : \A j \in 1..Len(k) : s[i + j - 1] = k[j]

(***************************************************************************)
(* bank_analyzer.py: _clean_number                                         *)
(***************************************************************************)
\* (\.\d{3})+ over the whole of s
RECURSIVE DotGroups(_)
DotGroups(s) ==
    /\ Len(s) >= 4
    /\ s[1] = "."
    /\ AllDigits(SubSeq(s, 2, 4))
    /\ (Len(s) = 4 \/ DotGroups(SubSeq(s, 5, Len(s))))

\* \d{1,3}(\.\d{3})+ over the whole of s
Thousands(s) ==
    \E n \in 1..3 :
        /\ Len(s) > n
        /\ AllDigits(SubSeq(s, 1, n))
        /\ DotGroups(SubSeq(s, n + 1, Len(s)))

FirstComma(s) ==
    IF \E i \in 1..Len(s) : s[i] = ","
    THEN CHOOSE i \in 1..Len(s) : s[i] = "," /\ \A j \in 1..(i - 1) : s[j] # ","
    ELSE 0

ColombianFormat_multi(s) ==
    LET c == FirstComma(s)
        body == IF c = 0 THEN s ELSE SubSeq(s, 1, c - 1)
    IN  /\ Thousands(body)
        /\ Len(SelectSeq(body, LAMBDA ch : ch = ".")) >= 2
        /\ c # 0 => (c < Len(s) /\ AllDigits(SubSeq(s, c + 1, Len(s))))

\* re.match(r'^\d{1,3}(\.\d{3})+(,\d+)?$', s)
ColombianFormat(s) ==
    LET c == FirstComma(s)
        body == IF c = 0 THEN s ELSE SubSeq(s, 1, c - 1)
    IN  /\ Thousands(body)
        /\ c # 0 => (c < Len(s) /\ AllDigits(SubSeq(s, c + 1, Len(s))))

\* A float is kept as its decimal expansion: ip the integer digits without
\* leading zeros, fp the fraction digits without trailing zeros. A double
\* tells apart decimals of up to 15 significant digits, which the inputs
\* below do not exceed. -0.0 equals 0.0.
Zero == [neg |-> FALSE, ip |-> <<>>, fp |-> <<>>]

RECURSIVE StripLeadingZeros(_)
StripLeadingZeros(s) ==
    IF s # <<>> /\ Head(s) = "0" THEN StripLeadingZeros(Tail(s)) ELSE s

RECURSIVE StripTrailingZeros(_)
StripTrailingZeros(s) ==
    IF s # <<>> /\ s[Len(s)] = "0"
    THEN StripTrailingZeros(SubSeq(s, 1, Len(s) - 1))
    ELSE s

Decimal(neg, ip, fp) ==
    LET i == StripLeadingZeros(ip)
        f == StripTrailingZeros(fp)
    IN  IF i = <<>> /\ f = <<>> THEN Zero ELSE [neg |-> neg, ip |-> i, fp |-> f]

\* float(s) accepts, of the strings of digits, dots and minus signs, those
\* with an optional leading sign, at most one dot and at least one digit
FloatOK(s) ==
    LET u == IF s # <<>> /\ Head(s) = "-" THEN Tail(s) ELSE s
    IN  /\ \A i \in 1..Len(u) : IsDigit(u[i]) \/ u[i] = "."
        /\ Len(SelectSeq(u, LAMBDA ch : ch = ".")) <= 1
        /\ \E i \in 1..Len(u) : IsDigit(u[i])

FloatOf(s) ==
    LET neg == s # <<>> /\ Head(s) = "-"
        u   == IF neg THEN Tail(s) ELSE s
        d   == IF \E i \in 1..Len(u) : u[i] = "."
               THEN CHOOSE i \in 1..Len(u) : u[i] = "."
               ELSE Len(u) + 1
    IN  Decimal(neg, SubSeq(u, 1, d - 1), SubSeq(u, d + 1, Len(u)))

\* the exception of float() on a string that is no literal
ValueError == [raised |-> "ValueError"]

\* float(s) for a string of digits, dots and minus signs
float(s) == IF FloatOK(s) THEN FloatOf(s) ELSE ValueError

\* the argument None, and the long dash of line 133 written in ASCII
None == <<"None">>

EmDash == "--"

_clean_number_uncaught(s) ==
    IF s = None THEN Zero
    ELSE LET t == strip(s)
         IN  IF t \in {<<>>, <<"-">>, <<EmDash>>, <<".">>} THEN Zero
             ELSE LET u == IF ColombianFormat(t)
                           THEN replace(remove(t, "."), ",", ".")
                           ELSE remove(t, ",")
                      w == SelectSeq(u, LAMBDA ch :
                                            IsDigit(ch) \/ ch = "." \/ ch = "-")
                  IN  float(w)

\* lines 133-145; the ValueError of float() is caught and gives 0.0
_clean_number(s) ==
    IF s = None THEN Zero
    ELSE LET t == strip(s)
         IN  IF t \in {<<>>, <<"-">>, <<EmDash>>, <<".">>} THEN Zero
             ELSE LET u == IF ColombianFormat(t)
                           THEN replace(remove(t, "."), ",", ".")
                           ELSE remove(t, ",")
                      w == SelectSeq(u, LAMBDA ch :
                                            IsDigit(ch) \/ ch = "." \/ ch = "-")
                  IN  IF float(w) = ValueError THEN Zero ELSE float(w)

(***************************************************************************)
(* _clean_number applied to the cells a statement can hold                 *)
(***************************************************************************)
MaxTokens == 4

NumTokens == {<<"1">>, <<"2", "3">>, <<"2", "3", "4">>, <<".">>, <<",">>,
              <<"-">>, <<"$">>, <<" ">>}

NumInputs ==
    {Flatten(ts) : ts \in UNION {[1..n -> NumTokens] : n \in 0..MaxTokens}}

\* Amounts as a statement prints them (docstring of line 132): the integer
\* digits in groups of three from the right, separated by dots, a comma and
\* two decimals
MaxDigits == 7

AmountDigits == {"0", "1", "9"}

Cents == {<<"0", "0">>, <<"0", "5">>, <<"5", "0">>, <<"8", "9">>}

RECURSIVE GroupThousands(_)
GroupThousands(ip) ==
    IF Len(ip) <= 3 THEN ip
    ELSE GroupThousands(SubSeq(ip, 1, Len(ip) - 3)) \o <<".">>
             \o SubSeq(ip, Len(ip) - 2, Len(ip))

FormatAmount(ip, fp) == GroupThousands(ip) \o <<",">> \o fp

\* None, the dashes and text without digits
OddInputs ==
    {None, <<EmDash>>, <<" ", EmDash, " ">>, <<EmDash, "1">>, <<"N", "/", "A">>,
     <<"-", "-">>, <<"1", "-">>, <<"-", ".", "-">>}

InitNum ==
    /\ InitUpload
    /\ \/ arg \in NumInputs
       \/ arg \in OddInputs
       \/ \E n \in 1..MaxDigits : \E ip \in [1..n -> AmountDigits] :
              \E fp \in Cents :
                  /\ (n > 1 => ip[1] # "0")
                  /\ arg = FormatAmount(ip, fp)
    /\ res = [done |-> FALSE, value |-> Zero]

CleanNumber ==
    /\ ~res.done
    /\ res' = [done |-> TRUE, value |-> _clean_number(arg)]
    /\ UNCHANGED <<arg, now, disk, uploaded_files, mergedCache, loadCache, run,
                   nsaved>>

NextNum == CleanNumber

SpecNum == InitNum /\ [][NextNum]_vars

\* s is digits around exactly one dot
OneDot(s) ==
    /\ Len(SelectSeq(s, LAMBDA ch : ch = ".")) = 1
    /\ \A i \in 1..Len(s) : IsDigit(s[i]) \/ s[i] = "."

BeforeDot(s) == SubSeq(s, 1, (CHOOSE i \in 1..Len(s) : s[i] = ".") - 1)

AfterDot(s) == SubSeq(s, (CHOOSE i \in 1..Len(s) : s[i] = ".") + 1, Len(s))

\* one to three digits, a dot, three digits
OneGroup(s) ==
    OneDot(s) /\ Len(BeforeDot(s)) \in 1..3 /\ Len(AfterDot(s)) = 3

\* C10: an input with a single dot group ("1.234") is read with the dot as
\* the decimal point.
C10_SingleGroupIsDecimal ==
    (res.done /\ OneGroup(arg)) =>
        res.value = Decimal(FALSE, BeforeDot(arg), AfterDot(arg))

\* C10 (amended): an input of digits around one dot is read as an integer
\* with a thousands separator when the dot is followed by exactly three
\* digits and preceded by one to three ("1.234" is 1234), and with the dot as
\* the decimal point otherwise.
C10_SingleGroupIsThousands ==
    (res.done /\ OneDot(arg)) =>
        res.value = IF OneGroup(arg)
                    THEN Decimal(FALSE, BeforeDot(arg) \o AfterDot(arg), <<>>)
                    ELSE Decimal(FALSE, BeforeDot(arg), AfterDot(arg))

C10_Witness ==
    /\ res.done
    /\ arg = <<"1", ".", "2", "3", "4">>
    /\ res.value = [neg |-> FALSE, ip |-> <<"1", "2", "3", "4">>, fp |-> <<>>]

\* the digits, dots and minus signs of s
Kept(s) == SelectSeq(s, LAMBDA ch : IsDigit(ch) \/ ch = "." \/ ch = "-")

Count(s, ch) == Len(SelectSeq(s, LAMBDA c : c = ch))

\* no number can be read from s: it is None, has no digit, has a minus sign
\* after its first digit or dot or several minus signs, or has several dots
\* that are not thousands separators
NoNumber(s) ==
    \/ s = None
    \/ ~ \E i \in 1..Len(s) : IsDigit(s[i])
    \/ Count(s, "-") >= 2
    \/ (Count(s, "-") = 1 /\ Head(Kept(s)) # "-")
    \/ (Count(s, ".") >= 2 /\ ~ColombianFormat(strip(s)))

\* C12: _clean_number raises for no token, and gives 0.0 whenever no number
\* can be read from the token.
C12_NeverRaises ==
    res.done => /\ res.value # ValueError
                /\ NoNumber(arg) => res.value = Zero

C12_Witness ==
    /\ res.done
    /\ arg = <<"1", ".", ".", "1">>
    /\ res.value = Zero

\* s is an amount in Colombian convention with two decimals
ColombianAmount(s) ==
    /\ Len(s) >= 4
    /\ s[Len(s) - 2] = ","
    /\ AllDigits(SubSeq(s, Len(s) - 1, Len(s)))
    /\ LET body == SubSeq(s, 1, Len(s) - 3)
       IN  /\ \/ (Len(body) \in 1..3 /\ AllDigits(body))
              \/ Thousands(body)
           /\ (Len(body) > 1 => body[1] # "0")

\* the amount that s prints
AmountOf(s) ==
    Decimal(FALSE, remove(SubSeq(s, 1, Len(s) - 3), "."),
            SubSeq(s, Len(s) - 1, Len(s)))

\* C11: an amount with two decimals written in Colombian convention is
\* read back as that amount, amounts below 1000 ("123,45") included.
C11_RoundTrip ==
    (res.done /\ ColombianAmount(arg)) => res.value = AmountOf(arg)

(***************************************************************************)
(* bank_analyzer.py: CATEGORY_RULES and _classify                          *)
(***************************************************************************)
LowerChars == <<
    "a", "b", "c", "d", "e", "f", "g", "h", "i", "j", "k", "l", "m", "n",
    "o", "p", "q", "r", "s", "t", "u", "v", "w", "x", "y", "z", "o'">>

UpperChars == <<
    "A", "B", "C", "D", "E", "F", "G", "H", "I", "J", "K", "L", "M", "N",
    "O", "P", "Q", "R", "S", "T", "U", "V", "W", "X", "Y", "Z", "O'">>

\* the upper-case form of every lower-case letter
ToUpper ==
    [ch \in {LowerChars[n] : n \in 1..Len(LowerChars)} |->
        UpperChars[CHOOSE n \in 1..Len(LowerChars) : LowerChars[n] = ch]]

\* str.upper()
upper(s) ==
    [i \in 1..Len(s) |-> IF s[i] \in DOMAIN ToUpper THEN ToUpper[s[i]] ELSE s[i]]

\* lines 45-89, in the order of the source
CATEGORY_RULES == <<
    [cat |-> "gmf_4x1000",
     keywords |-> <<
          <<"4", "X", "1", "0", "0", "0">>,
          <<"G", "R", "A", "V", "A", "M", "E", "N", " ", "M", "O", "V", "I", "M", "I", "E", "N", "T", "O">>,
          <<"G", "M", "F", " ">>,
          <<"I", "M", "P", "U", "E", "S", "T", "O", " ", "G", "M", "F">>,
          <<"G", "R", "A", "V", "A", "M", "E", "N", " ", "A", "L", " ", "M", "O", "V", "I", "M", "I", "E", "N", "T", "O">>>>],
    [cat |-> "interes_pago",
     keywords |-> <<
          <<"I", "N", "T", "E", "R", "E", "S", "E", "S", " ", "M", "O", "R", "A">>,
          <<"C", "O", "B", "R", "O", " ", "I", "N", "T">>,
          <<"C", "U", "O", "T", "A", " ", "I", "N", "T">>,
          <<"I", "N", "T", "E", "R", "E", "S", " ", "C", "O", "R", "R", "I", "E", "N", "T", "E">>,
          <<"I", "N", "T", "E", "R", "E", "S", "E", "S", " ", "C", "O", "R", "R", "I", "E", "N", "T", "E", "S">>,
          <<"I", "N", "T", "E", "R", "E", "S", " ", "D", "E", " ", "M", "O", "R", "A">>,
          <<"C", "A", "R", "G", "O", "S", " ", "F", "I", "N", "A", "N", "C", "I", "E", "R", "O", "S">>,
          <<"C", "O", "B", "R", "O", " ", "I", "N", "T", "E", "R", "E", "S", "E", "S">>>>],
    [cat |-> "interes_rcdo",
     keywords |-> <<
          <<"A", "B", "O", "N", "O", " ", "I", "N", "T", "E", "R", "E", "S", "E", "S">>,
          <<"I", "N", "T", " ", "A", "H", "O", "R", "R", "O", "S">>,
          <<"R", "E", "N", "D", "I", "M", "I", "E", "N", "T", "O", " ", "F", "I", "N", "A", "N", "C", "I", "E", "R", "O">>,
          <<"I", "N", "T", "E", "R", "E", "S", "E", "S", " ", "A", "H", "O", "R", "R", "O", "S">>,
          <<"R", "E", "N", "D", "I", "M", "I", "E", "N", "T", "O", "S">>,
          <<"I", "N", "T", "E", "R", "E", "S", "E", "S", " ", "C", "U", "E", "N", "T", "A">>,
          <<"I", "N", "T", "E", "R", "E", "S", "E", "S", " ", "C", "D", "T", "E">>>>],
    [cat |-> "retencion",
     keywords |-> <<
          <<"R", "E", "T", "E", "N", "C", "I", "O", "N">>,
          <<"R", "E", "T", "E", "F", "U", "E", "N", "T", "E">>,
          <<"R", "E", "T", "E", " ", "F", "U", "E", "N", "T", "E">>,
          <<"R", "E", "T", ".", " ", "E", "N", " ", "L", "A", " ", "F", "U", "E", "N", "T", "E">>,
          <<"R", "E", "T", "E", "N", "C", "I", "O'", "N", " ", "E", "N", " ", "L", "A", " ", "F", "U", "E", "N", "T", "E">>,
          <<"A", "U", "T", "O", "R", "E", "T", "E", "N", "C">>,
          <<"A", "U", "T", "O", "R", "E", "T", "E", "N", "C", "I", "O", "N">>>>],
    [cat |-> "parafiscal",
     keywords |-> <<
          <<"P", "A", "R", "A", "F", "I", "S", "C", "A", "L">>,
          <<"S", "A", "L", "U", "D", " ", "E", "P", "S">>,
          <<"P", "E", "N", "S", "I", "O", "N", " ", "A", "F", "P">>,
          <<"A", "R", "L", " ">>,
          <<"C", "A", "J", "A", " ", "C", "O", "M", "P">>,
          <<"S", "E", "N", "A", " ">>,
          <<"I", "C", "B", "F">>,
          <<"S", "E", "G", "U", "R", "I", "D", "A", "D", " ", "S", "O", "C", "I", "A", "L">>,
          <<"P", "L", "A", "N", "I", "L", "L", "A", " ", "P", "I", "L", "A">>,
          <<"A", "P", "O", "R", "T", "E", "S", " ", "S", "O", "C", "I", "A", "L", "E", "S">>,
          <<"P", "L", "A", "N", "I", "L", "L", "A", " ", "S", "O", "I">>>>],
    [cat |-> "nomina",
     keywords |-> <<
          <<"N", "O", "M", "I", "N", "A">>,
          <<"P", "A", "G", "O", " ", "N", "O", "M", "I", "N", "A">>,
          <<"D", "I", "S", "P", "E", "R", "S", "I", "O'", "N", " ", "N", "O'", "M", "I", "N", "A">>,
          <<"P", "L", "A", "N", "I", "L", "L", "A", " ", "N", "O", "M", "I", "N", "A">>,
          <<"P", "A", "G", "O", " ", "D", "E", " ", "N", "O", "M", "I", "N", "A">>,
          <<"D", "E", "S", "P", "R", "E", "N", "D", "I", "B", "L", "E">>,
          <<"P", "A", "G", "O", " ", "C", "O", "L", "A", "B", "O", "R", "A", "D", "O", "R", "E", "S">>>>],
    [cat |-> "impuesto",
     keywords |-> <<
          <<"I", "M", "P", "U", "E", "S", "T", "O">>,
          <<"D", "I", "A", "N", " ">>,
          <<"P", "A", "G", "O", " ", "D", "I", "A", "N">>,
          <<"I", "C", "A", " ", "B", "O", "G", "O", "T", "A">>,
          <<"I", "C", "A", " ", "M", "E", "D", "E", "L", "L", "I", "N">>,
          <<"I", "C", "A", " ", "C", "A", "L", "I">>,
          <<"P", "R", "E", "D", "I", "A", "L">>,
          <<"V", "E", "H", "I", "C", "U", "L", "O", "S">>,
          <<"T", "I", "M", "B", "R", "E">>,
          <<"I", "C", "A", " ", "M", "U", "N", "I", "C", "I", "P", "I", "O">>,
          <<"I", "N", "D", "U", "S", "T", "R", "I", "A", " ", "Y", " ", "C", "O", "M", "E", "R", "C", "I", "O">>>>],
    [cat |-> "ingreso",
     keywords |-> <<
          <<"P", "A", "G", "O", " ", "Q", "R">>,
          <<"C", "O", "N", "S", "I", "G", "N", "A", "C", "I", "O", "N">>,
          <<"D", "E", "P", "O", "S", "I", "T", "O">>,
          <<"A", "B", "O", "N", "O", " ", "C", "R", "E", "D", "I", "T", "O">>,
          <<"P", "A", "G", "O", " ", "R", "E", "C", "I", "B", "I", "D", "O">>,
          <<"P", "A", "G", "O", " ", "C", "L", "I", "E", "N", "T", "E">>,
          <<"A", "B", "O", "N", "O", " ", "F", "A", "C", "T", "U", "R", "A", "S">>,
          <<"T", "R", "A", "N", "S", "F", "E", "R", "E", "N", "C", "I", "A", " ", "R", "E", "C", "I", "B", "I", "D", "A">>,
          <<"P", "A", "G", "O", " ", "N", "E", "Q", "U", "I", " ", "R", "E", "C", "I", "B", "I", "D", "O">>,
          <<"A", "B", "O", "N", "O", " ", "C", "R", "E", "D", "I", "T", "O">>,
          <<"D", "E", "S", "E", "M", "B", "O", "L", "S", "O">>>>],
    [cat |-> "retiro",
     keywords |-> <<
          <<"R", "E", "T", "I", "R", "O", " ">>,
          <<"C", "A", "J", "E", "R", "O">>,
          <<"A", "T", "M", " ">>,
          <<"P", "A", "G", "O", " ", "T", "C">>,
          <<"C", "U", "O", "T", "A", " ", "T", "C">>,
          <<"A", "V", "A", "N", "C", "E", " ", "T", "C">>,
          <<"A", "V", "A", "N", "C", "E", " ", "A", "T", "M">>,
          <<"C", "O", "M", "P", "R", "A", " ", "T", "A", "R", "J", "E", "T", "A">>,
          <<"C", "O", "M", "P", "R", "A", " ", "E", "N">>>>],
    [cat |-> "transferencia",
     keywords |-> <<
          <<"T", "R", "A", "N", "S", "F", "E", "R", "E", "N", "C", "I", "A">>,
          <<"P", "S", "E">>,
          <<"N", "E", "Q", "U", "I", " ", "A">>,
          <<"D", "A", "V", "I", "P", "L", "A", "T", "A">>,
          <<"T", "R", "A", "N", "S", "F", "I", "Y", "A">>,
          <<"T", "R", "A", "S", "L", "A", "D", "O">>,
          <<"M", "O", "V", "I", "M", "I", "E", "N", "T", "O", " ", "B", "A", "N", "C", "A", "R", "I", "O">>,
          <<"P", "A", "G", "O", " ", "N", "E", "Q", "U", "I", " ", "E", "N", "V", "I", "A", "D", "O">>>>],
    [cat |-> "comision",
     keywords |-> <<
          <<"C", "U", "O", "T", "A", " ", "M", "A", "N", "E", "J", "O">>,
          <<"C", "O", "M", "I", "S", "I", "O", "N">>,
          <<"C", "O", "M", "I", "S", "I", "O'", "N">>,
          <<"C", "A", "R", "G", "O", " ", "S", "E", "R", "V", "I", "C", "I", "O">>,
          <<"S", "E", "R", "V", "I", "C", "I", "O", " ", "B", "A", "N", "C", "A", "R", "I", "O">>,
          <<"C", "U", "O", "T", "A", " ", "A", "D", "M", "I", "N", "I", "S", "T", "R", "A", "C", "I", "O", "N">>,
          <<"C", "U", "O", "T", "A", " ", "D", "E", " ", "M", "A", "N", "E", "J", "O">>>>]>>

\* any(k in du for k in keywords) for rule i
RuleHits(du, i) ==
    \E n \in 1..Len(CATEGORY_RULES[i].keywords) :
        Contains(du, CATEGORY_RULES[i].keywords[n])

\* the for loop of _classify from rule i on
RECURSIVE FirstRule(_, _)
FirstRule(du, i) ==
    IF i > Len(CATEGORY_RULES) THEN "otro"
    ELSE IF RuleHits(du, i) THEN CATEGORY_RULES[i].cat
    ELSE FirstRule(du, i + 1)

RECURSIVE LastRule(_, _)
LastRule(du, i) ==
    IF i < 1 THEN "otro"
    ELSE IF RuleHits(du, i) THEN CATEGORY_RULES[i].cat
    ELSE LastRule(du, i - 1)

_classify_lastmatch(desc) ==
    IF desc = <<>> THEN "otro"
    ELSE CHOOSE cat \in {LastRule(du, Len(CATEGORY_RULES)) : du \in {upper(desc)}} :
            TRUE

\* lines 116-123 (the bound du holds str(desc).upper(), evaluated once)
_classify(desc) ==
    IF desc = <<>> THEN "otro"
    ELSE CHOOSE cat \in {FirstRule(du, 1) : du \in {upper(desc)}} : TRUE

(***************************************************************************)
(* _classify applied to descriptions of up to MaxWords words               *)
(***************************************************************************)
MaxWords == 3

DescWords == {
    <<"4", "X", "1", "0", "0", "0">>,
    <<"g", "m", "f">>,
    <<"R", "E", "T", "I", "R", "O">>,
    <<"C", "A", "J", "E", "R", "O">>,
    <<"T", "R", "A", "N", "S", "F", "E", "R", "E", "N", "C", "I", "A">>,
    <<"R", "E", "C", "I", "B", "I", "D", "A">>,
    <<"N", "o", "m", "i", "n", "a">>,
    <<"x", "y", "z">>}

RECURSIVE Join(_)
Join(ws) ==
    IF ws = <<>> THEN <<>>
    ELSE IF Len(ws) = 1 THEN Head(ws)
    ELSE Head(ws) \o <<" ">> \o Join(Tail(ws))

Descriptions ==
    {Join(ws) : ws \in UNION {[1..n -> DescWords] : n \in 0..MaxWords}}

InitClassify ==
    /\ InitUpload
    /\ arg \in Descriptions
    /\ res = [done |-> FALSE, cat |-> ""]

Classify ==
    /\ ~res.done
    /\ res' = [done |-> TRUE, cat |-> _classify(arg)]
    /\ UNCHANGED <<arg, now, disk, uploaded_files, mergedCache, loadCache, run,
                   nsaved>>

NextClassify == Classify

SpecClassify == InitClassify /\ [][NextClassify]_vars

\* the same letter, whatever the case
SameLetter(a, b) == a = b \/ upper(<<a>>) = upper(<<b>>)

\* k is a case-insensitive substring of s
ContainsNoCase(s, k) ==
    \E i \in 1..(Len(s) - Len(k) + 1) :
        \A j \in 1..Len(k) : SameLetter(s[i + j - 1], k[j])

\* the rules of which some keyword occurs in s
Hits(s) ==
    {i \in 1..Len(CATEGORY_RULES) :
        \E n \in 1..Len(CATEGORY_RULES[i].keywords) :
            ContainsNoCase(s, CATEGORY_RULES[i].keywords[n])}

HitsCategory(s, cat) ==
    \E i \in Hits(s) : CATEGORY_RULES[i].cat = cat

\* C9: _classify returns the category of the first rule, in table order, of
\* which a keyword is a case-insensitive substring of the description, and
\* "otro" when there is none or the description is empty; a description with
\* a GMF keyword and a withdrawal or transfer keyword is gmf_4x1000.
C9_FirstMatchWins ==
    res.done =>
        /\ \A h \in {Hits(arg)} :
             res.cat = IF arg = <<>> \/ h = {} THEN "otro"
                       ELSE CATEGORY_RULES[CHOOSE i \in h : \A j \in h : i <= j].cat
        /\ (/\ HitsCategory(arg, "gmf_4x1000")
            /\ (HitsCategory(arg, "retiro") \/ HitsCategory(arg, "transferencia")))
           => res.cat = "gmf_4x1000"

\* "4X1000 RETIRO CAJERO" has been classified
C9_Witness ==
    /\ res.done
    /\ arg = Join(<<<<"4", "X", "1", "0", "0", "0">>,
                    <<"R", "E", "T", "I", "R", "O">>,
                    <<"C", "A", "J", "E", "R", "O">>>>)
    /\ res.cat = "gmf_4x1000"

(***************************************************************************)
(* bank_analyzer.py: the rows the statement parsers emit. A statement is   *)
(* the list of its transaction lines as the extraction step hands them to  *)
(* the parser: a description and two cells (c1, c2), with the columns the  *)
(* header row names (cols) and the SALDO ANTERIOR of the summary.          *)
(* Amounts are in thousandths; the cells have at most three decimals.      *)
(***************************************************************************)
DigitVal(ch) == (CHOOSE d \in 1..10 : DigitChars[d] = ch) - 1

RECURSIVE IntOf(_)
IntOf(s) ==
    IF s = <<>> THEN 0
    ELSE IntOf(SubSeq(s, 1, Len(s) - 1)) * 10 + DigitVal(s[Len(s)])

Milli(v) ==
    (IF v.neg THEN -1 ELSE 1)
    * (IntOf(v.ip) * 1000 + IntOf(SubSeq(v.fp \o <<"0", "0", "0">>, 1, 3)))

Amount(cell) == Milli(_clean_number(cell))

abs(n) == IF n < 0 THEN -n ELSE n

\* line 211: rows of the table header
PdfHeaderKeywords == {
    <<"F", "E", "C", "H", "A">>,
    <<"D", "E", "S", "C", "R", "I", "P", "C", "I">>,
    <<"S", "U", "C", "U", "R", "S", "A", "L">>,
    <<"D", "C", "T", "O">>,
    <<"V", "A", "L", "O", "R", " ", "S", "A", "L", "D", "O">>}

\* lines 236-238
PdfCreditKeywords == {
    <<"A", "B", "O", "N", "O">>,
    <<"P", "A", "G", "O", " ", "Q", "R">>,
    <<"C", "O", "N", "S", "I", "G", "N", "A", "C", "I", "O", "N">>,
    <<"D", "E", "P", "O", "S", "I", "T", "O">>,
    <<"T", "R", "A", "N", "S", "F", "E", "R", "E", "N", "C", "I", "A", " ", "R", "E", "C", "I", "B", "I", "D", "A">>,
    <<"I", "N", "T", "E", "R", "E", "S", "E", "S">>}

\* lines 516-520
ExcelCreditKeywords == {
    <<"A", "B", "O", "N", "O">>,
    <<"C", "O", "N", "S", "I", "G", "N", "A", "C", "I", "O", "N">>,
    <<"D", "E", "P", "O", "S", "I", "T", "O">>,
    <<"P", "A", "G", "O", " ", "Q", "R">>,
    <<"T", "R", "A", "N", "S", "F", "E", "R", "E", "N", "C", "I", "A", " ", "R", "E", "C", "I", "B", "I", "D", "A">>,
    <<"I", "N", "T", "E", "R", "E", "S", "E", "S">>,
    <<"R", "E", "N", "D", "I", "M", "I", "E", "N", "T", "O">>,
    <<"P", "A", "G", "O", " ", "N", "E", "Q", "U", "I", " ", "R", "E", "C", "I", "B", "I", "D", "O">>,
    <<"D", "E", "S", "E", "M", "B", "O", "L", "S", "O">>}

\* lines 364-365: ^(DESCRIPCI[OÓ]N|CONCEPTO|MOVIMIENTO|FECHA|DETALLE|SALDO)\s*$
TableHeaderWords == {
    <<"D", "E", "S", "C", "R", "I", "P", "C", "I", "O", "N">>,
    <<"D", "E", "S", "C", "R", "I", "P", "C", "I", "O'", "N">>,
    <<"C", "O", "N", "C", "E", "P", "T", "O">>,
    <<"M", "O", "V", "I", "M", "I", "E", "N", "T", "O">>,
    <<"F", "E", "C", "H", "A">>,
    <<"D", "E", "T", "A", "L", "L", "E">>,
    <<"S", "A", "L", "D", "O">>}

Row(desc, debito, credito) ==
    [descripcion |-> desc, debito |-> debito, credito |-> credito]

\* the decimal digits of a natural number
RECURSIVE Digits(_)
Digits(n) ==
    IF n < 10 THEN <<DigitChars[n + 1]>>
    ELSE Digits(n \div 10) \o <<DigitChars[(n % 10) + 1]>>

\* f"{n:02d}"
Pad2(n) == IF n < 10 THEN <<"0">> \o Digits(n) ELSE Digits(n)

\* lines 162-164: the year and the month of HASTA: yyyy/mm/dd in the header,
\* those of the day of the run (today) when the header has none
EndOf(doc) ==
    IF doc.hasta = <<>> THEN doc.today
    ELSE [year |-> IntOf(SubSeq(doc.hasta, 1, 4)),
          month |-> IntOf(SubSeq(doc.hasta, 6, 7))]

tx_year_same_month(end, mon) == IF mon >= end.month THEN end.year - 1 ELSE end.year

\* lines 222-226
tx_year(end, mon) == IF mon > end.month THEN end.year - 1 ELSE end.year

\* lines 220-227 for fecha_raw = d/mm
fecha_full(fecha_raw, end) ==
    LET slash == CHOOSE i \in 1..Len(fecha_raw) : fecha_raw[i] = "/"
        day   == IntOf(SubSeq(fecha_raw, 1, slash - 1))
        mon   == IntOf(SubSeq(fecha_raw, slash + 1, Len(fecha_raw)))
    IN  Pad2(day) \o <<"/">> \o Pad2(mon) \o <<"/">> \o Digits(tx_year(end, mon))

is_credit_keywords(prev, saldo, du) == \E k \in PdfCreditKeywords : Contains(du, k)

\* lines 232-239; prev is prev_saldo (some = FALSE for None), amounts in
\* thousandths
is_credit(prev, saldo, du) ==
    IF prev.some THEN (saldo - prev.v) > -1000
    ELSE \E k \in PdfCreditKeywords : Contains(du, k)

\* lines 203-251: the loop over the matches of tx_pat, c1 = VALOR, c2 = SALDO;
\* fecha_raw is a history field of the row
RECURSIVE BancolombiaRows(_, _, _)
BancolombiaRows(lines, prev, end) ==
    IF lines = <<>> THEN <<>>
    ELSE LET desc  == strip(Head(lines).desc)
             valor == Amount(Head(lines).c1)
             saldo == Amount(Head(lines).c2)
             du    == upper(desc)
             credit == is_credit(prev, saldo, du)
         IN  IF \E k \in PdfHeaderKeywords : Contains(du, k)
             THEN BancolombiaRows(Tail(lines), prev, end)
             ELSE IF valor < 10
             THEN BancolombiaRows(Tail(lines), prev, end)
             ELSE <<Row(desc, IF credit THEN 0 ELSE valor,
                        IF credit THEN valor ELSE 0)
                    @@ [fecha |-> fecha_full(Head(lines).fecha, end),
                        saldo |-> saldo, fecha_raw |-> Head(lines).fecha]>>
                  \o BancolombiaRows(Tail(lines), [some |-> TRUE, v |-> saldo],
                                     end)

\* lines 150-271
_parse_bancolombia(doc) ==
    LET saldo_anterior == Amount(doc.saldo_anterior)
    IN  BancolombiaRows(doc.lines,
                        IF saldo_anterior > 0
                        THEN [some |-> TRUE, v |-> saldo_anterior]
                        ELSE [some |-> FALSE, v |-> 0],
                        EndOf(doc))

\* lines 332-366: c1 is the cell under the debit header, c2 the one under
\* the credit header; a column the header does not name gives 0.0
_normalize_from_table(lines, cols) ==
    LET out == [i \in 1..Len(lines) |->
                  Row(strip(lines[i].desc),
                      IF "debito" \in cols THEN Amount(lines[i].c1) ELSE 0,
                      IF "credito" \in cols THEN Amount(lines[i].c2) ELSE 0)]
    IN  SelectSeq(out, LAMBDA r :
            /\ Len(r.descripcion) > 2
            /\ upper(r.descripcion) \notin TableHeaderWords)

\* lines 369-381: col1 and col2 of _parse_text_regex
_normalize_from_text(lines) ==
    LET out == [i \in 1..Len(lines) |->
                  Row(strip(lines[i].desc), Amount(lines[i].c1),
                      Amount(lines[i].c2))]
    IN  SelectSeq(out, LAMBDA r : Len(r.descripcion) > 2)

\* parse_bank_statement, lines 693-698: the table strategy is taken with 3
\* or more table rows and 2 or more normalized rows
PdfTable(doc) ==
    IF Len(doc.lines) >= 3
       /\ Len(_normalize_from_table(doc.lines, doc.cols)) >= 2
    THEN _normalize_from_table(doc.lines, doc.cols)
    ELSE <<>>

\* parse_bank_statement, lines 700-702
PdfText(doc) == _normalize_from_text(doc.lines)

\* lines 494-531 for one row with a date: c1 = CARGO or VALOR, c2 = ABONO
ExcelRow(l, cols) ==
    LET desc == strip(l.desc)
        v_signed == remove(replace(l.c1, "(", "-"), ")")
        v_clean  == Amount(v_signed)
        is_cr == \E k \in ExcelCreditKeywords : Contains(upper(desc), k)
        given == "debito" \in cols /\ "credito" \in cols
        valor_col == "valor" \in cols /\ "debito" \notin cols
                     /\ "credito" \notin cols
        credito == IF given THEN Amount(l.c2)
                   ELSE IF Contains(l.c1, <<"-">>) \/ Contains(l.c1, <<"(">>)
                        \/ v_clean < 0
                   THEN 0
                   ELSE IF is_cr THEN v_clean ELSE 0
        debito  == IF given THEN Amount(l.c1)
                   ELSE IF Contains(l.c1, <<"-">>) \/ Contains(l.c1, <<"(">>)
                        \/ v_clean < 0
                   THEN abs(v_clean)
                   ELSE IF is_cr THEN 0 ELSE v_clean
    IN  IF ~given /\ ~valor_col THEN <<>>
        ELSE IF credito = 0 /\ debito = 0 THEN <<>>
        ELSE IF Len(desc) < 2 THEN <<>>
        ELSE <<Row(desc, debito, credito)>>

\* lines 386-564
RECURSIVE ExcelRows(_, _)
ExcelRows(lines, cols) ==
    IF lines = <<>> THEN <<>>
    ELSE ExcelRow(Head(lines), cols) \o ExcelRows(Tail(lines), cols)

_parse_bancolombia_excel(doc) == ExcelRows(doc.lines, doc.cols)

\* lines 567-634: one sheet
_parse_excel_generic(doc) ==
    IF Len(doc.lines) < 2 THEN <<>>
    ELSE _normalize_from_table(doc.lines, doc.cols)

(***************************************************************************)
(* The parsers applied to statements of up to MaxLines lines               *)
(***************************************************************************)
MaxLines == 3

DescAbono == <<"A", "B", "O", "N", "O">>

DescCompra == <<"C", "O", "M", "P", "R", "A">>

DescFecha == <<"F", "E", "C", "H", "A">>

DescShort == <<"X">>

\* what group 2 of the pattern of _parse_text_regex matches: a character
\* and the text {5,80}, which the pattern holds as a literal
DescText == <<"A", "{", "5", ",", "8", "0", "}">>

Cell0 == <<"0">>

Cell1 == <<"1">>

Cell1234 == <<"1", ".", "2", "3", "4">>

CellDot == <<".">>

CellParen == <<"(", "2", "3", ")">>

LinesOf(descs, c1s, c2s) ==
    UNION {[1..n -> [desc : descs, c1 : c1s, c2 : c2s]] : n \in 0..MaxLines}

\* matches of tx_pat: d/mm, description, VALOR, SALDO
TxLines(fechas, descs, c1s, c2s) ==
    UNION {[1..n -> [fecha : fechas, desc : descs, c1 : c1s, c2 : c2s]] :
             n \in 0..MaxLines}

Saldo1000 == <<"1", ",", "0", "0", "0", ".", "0", "0">>

Saldo1000_50 == <<"1", ",", "0", "0", "0", ".", "5", "0">>

Saldo1500 == <<"1", ",", "5", "0", "0", ".", "0", "0">>

Saldo1200 == <<"1", ",", "2", "0", "0", ".", "0", "0">>

Hasta2024_06 == <<"2", "0", "2", "4", "/", "0", "6", "/", "3", "0">>

Fechas == {<<"1", "/", "0", "1">>, <<"1", "5", "/", "0", "6">>, <<"9", "/", "0", "7">>, <<"3", "1", "/", "1", "2">>}

Hastas == {<<>>, <<"2", "0", "2", "4", "/", "0", "1", "/", "3", "1">>, Hasta2024_06, <<"2", "0", "2", "4", "/", "1", "2", "/", "3", "1">>}

Todays == {[year |-> 2026, month |-> 1], [year |-> 2026, month |-> 11]}

Doc(parser, cols, saldo_anterior, lines) ==
    [parser |-> parser, cols |-> cols, saldo_anterior |-> saldo_anterior,
     lines |-> lines]

BancolombiaDoc(hasta, today, saldo_anterior, lines) ==
    Doc("bancolombia_pdf", {}, saldo_anterior, lines)
    @@ [hasta |-> hasta, today |-> today]

\* the statements handed to each parser, and the columns their header names
InitBank ==
    /\ InitUpload
    /\ res = [done |-> FALSE, rows |-> <<>>]
    /\ \/ \E sa \in {Cell0, Saldo1000, Saldo1000_50},
             ls \in TxLines({<<"1", "/", "0", "1">>}, {DescAbono, DescCompra, DescFecha},
                            {Cell1234, CellDot},
                            {Saldo1000, Saldo1500, Saldo1200}) :
             arg = BancolombiaDoc(Hasta2024_06, [year |-> 2026, month |-> 11],
                                  sa, ls)
       \/ \E h \in Hastas, td \in Todays,
             ls \in TxLines(Fechas, {DescCompra, DescShort}, {Cell1234},
                            {Saldo1000}) :
             arg = BancolombiaDoc(h, td, Cell0, ls)
       \/ \E p \in {"pdf_table", "excel_generic"},
             cols \in SUBSET {"debito", "credito"},
             ls \in LinesOf({DescCompra, DescShort}, {<<>>, Cell1}, {<<>>, Cell1}) :
             arg = Doc(p, cols, Cell0, ls)
       \/ \E ls \in LinesOf({DescText}, {Cell1, CellDot}, {<<>>, Cell1}) :
             arg = Doc("pdf_text", {}, Cell0, ls)
       \/ \E cols \in {{"debito", "credito"}, {"valor"}, {"debito", "valor"}},
             ls \in LinesOf({DescAbono, DescCompra}, {<<>>, Cell1, CellParen},
                            {<<>>, Cell1}) :
             arg = Doc("bancolombia_excel", cols, Cell0, ls)

Emit(parser, rows) ==
    /\ ~res.done
    /\ arg.parser = parser
    /\ res' = [done |-> TRUE, rows |-> rows]
    /\ UNCHANGED <<arg, now, disk, uploaded_files, mergedCache, loadCache, run,
                   nsaved>>

ParseBancolombia == Emit("bancolombia_pdf", _parse_bancolombia(arg))

ParsePdfTable == Emit("pdf_table", PdfTable(arg))

ParsePdfText == Emit("pdf_text", PdfText(arg))

ParseBancolombiaExcel == Emit("bancolombia_excel", _parse_bancolombia_excel(arg))

ParseExcelGeneric == Emit("excel_generic", _parse_excel_generic(arg))

NextBank ==
    \/ ParseBancolombia
    \/ ParsePdfTable
    \/ ParsePdfText
    \/ ParseBancolombiaExcel
    \/ ParseExcelGeneric

SpecBank == InitBank /\ [][NextBank]_vars

\* exactly one of debito and credito is positive and the other is zero
OneSided(r) ==
    \/ r.debito > 0 /\ r.credito = 0
    \/ r.credito > 0 /\ r.debito = 0

\* C3: every row a bank parser emits has exactly one of debito and credito
\* strictly positive and the other equal to zero.
C3_DebitXorCredit ==
    res.done => \A i \in 1..Len(res.rows) : OneSided(res.rows[i])

\* the balance a Bancolombia row is compared with: the balance of the row
\* emitted before it, the statement's previous balance for the first row,
\* none when that one is not positive
Preceding(doc, rows, i) ==
    IF i > 1 THEN [some |-> TRUE, v |-> rows[i - 1].saldo]
    ELSE IF Amount(doc.saldo_anterior) > 0
    THEN [some |-> TRUE, v |-> Amount(doc.saldo_anterior)]
    ELSE [some |-> FALSE, v |-> 0]

IsCredit(r) == r.credito > 0 /\ r.debito = 0

IsDebit(r) == r.debito > 0 /\ r.credito = 0

\* C18: a Bancolombia row with a preceding balance is a credit when its
\* balance rose or fell by less than 1 unit and a debit when it fell by 1
\* unit or more; the first row without a preceding balance is a credit
\* exactly when its description holds a credit keyword
C18_CreditByBalance ==
    (res.done /\ arg.parser = "bancolombia_pdf") =>
        \A i \in 1..Len(res.rows) :
            LET r    == res.rows[i]
                prev == Preceding(arg, res.rows, i)
            IN  /\ IsCredit(r) \/ IsDebit(r)
                /\ prev.some =>
                     /\ r.saldo > prev.v - 1000 => IsCredit(r)
                     /\ r.saldo <= prev.v - 1000 => IsDebit(r)
                /\ ~prev.some =>
                     (IsCredit(r) <=>
                        \E k \in PdfCreditKeywords : Contains(upper(r.descripcion), k))

C18_Witness ==
    /\ res.done
    /\ arg.parser = "bancolombia_pdf"
    /\ arg.saldo_anterior = Saldo1000
    /\ Len(res.rows) = 2
    /\ res.rows[1].descripcion = DescCompra
    /\ res.rows[1].saldo = 1500000 /\ IsCredit(res.rows[1])
    /\ res.rows[2].saldo = 1200000 /\ IsDebit(res.rows[2])

C18_WitnessTolerance ==
    /\ res.done
    /\ arg.saldo_anterior = Saldo1000_50
    /\ Len(res.rows) >= 1
    /\ res.rows[1].saldo = 1000000 /\ IsCredit(res.rows[1])

C18_WitnessFirstRow ==
    /\ res.done
    /\ arg.parser = "bancolombia_pdf"
    /\ arg.saldo_anterior = Cell0
    /\ Len(res.rows) = 2
    /\ res.rows[1].descripcion = DescAbono /\ IsCredit(res.rows[1])
    /\ res.rows[2].saldo < res.rows[1].saldo /\ IsDebit(res.rows[2])

\* the day and the month written in d/mm
DayMonth(fecha_raw) ==
    LET slash == CHOOSE i \in 1..Len(fecha_raw) : fecha_raw[i] = "/"
    IN  [day |-> IntOf(SubSeq(fecha_raw, 1, slash - 1)),
         mon |-> IntOf(SubSeq(fecha_raw, slash + 1, Len(fecha_raw)))]

\* C19: with HASTA in the header, the date of every Bancolombia row is
\* dd/mm/yyyy with the day and the month of the transaction and the year of
\* HASTA, one less exactly when the month is greater than the month of HASTA
C19_YearFromHasta ==
    (res.done /\ arg.parser = "bancolombia_pdf" /\ arg.hasta # <<>>) =>
        \A i \in 1..Len(res.rows) :
            LET dm    == DayMonth(res.rows[i].fecha_raw)
                hasta == EndOf(arg)
                year  == IF dm.mon > hasta.month THEN hasta.year - 1 ELSE hasta.year
            IN  res.rows[i].fecha =
                    Pad2(dm.day) \o <<"/">> \o Pad2(dm.mon) \o <<"/">> \o Digits(year)

C19_Witness ==
    /\ res.done
    /\ arg.parser = "bancolombia_pdf"
    /\ arg.hasta = <<"2", "0", "2", "4", "/", "0", "1", "/", "3", "1">>
    /\ Len(res.rows) = 2
    /\ res.rows[1].fecha = <<"3", "1", "/", "1", "2", "/", "2", "0", "2", "3">>
    /\ res.rows[2].fecha = <<"0", "1", "/", "0", "1", "/", "2", "0", "2", "4">>

\* C23: no parser emits a row whose description has fewer than 3 characters
C23_NoShortDescription ==
    res.done => \A i \in 1..Len(res.rows) : Len(res.rows[i].descripcion) >= 3

(***************************************************************************)
(* data_loader.py: the loaders on a workbook                               *)
(* A workbook is absent, corrupt or a sheet: a sequence of rows of cells.  *)
(* A cell is its text; NaNCell is a cell without value. A table is its     *)
(* column names and its rows; a coerced cell holds a number, Num(n).        *)
(***************************************************************************)
NaNCell == <<"NaN">>

\* str(cell)
str(c) == IF c = NaNCell THEN <<"n", "a", "n">> ELSE c

\* the lower-case form of every upper-case letter
ToLower ==
    [ch \in {UpperChars[n] : n \in 1..Len(UpperChars)} |->
        LowerChars[CHOOSE n \in 1..Len(UpperChars) : UpperChars[n] = ch]]

\* str.lower()
lower(s) ==
    [i \in 1..Len(s) |-> IF s[i] \in DOMAIN ToLower THEN ToLower[s[i]] ELSE s[i]]

\* what a loader hands to its caller: a table or an exception
IndexError == [raised |-> "IndexError"]

FileNotFoundError == [raised |-> "FileNotFoundError"]

BadZipFile == [raised |-> "BadZipFile"]

TypeError == [raised |-> "TypeError"]

EmptyTable == [columns |-> <<>>, rows |-> <<>>]

\* pd.read_excel(path, header=None)
read_excel(file) ==
    IF file.kind = "absent" THEN FileNotFoundError
    ELSE IF file.kind = "corrupt" THEN BadZipFile
    ELSE file.sheet

HasColumn(columns, name) == \E i \in 1..Len(columns) : columns[i] = name

ColumnOf(columns, name) == CHOOSE i \in 1..Len(columns) : columns[i] = name

\* a cell that read_excel without dtype=str reads as a number
IsNumber(c) == c # <<>> /\ c # NaNCell /\ AllDigits(c)

\* a cell that holds the number n
Num(n) == <<"#", n>>

IsNum(c) == Len(c) = 2 /\ c[1] = "#"

Val(c) == c[2]

\* pd.to_numeric(cell, errors="coerce"), then fillna(0)
to_numeric(c) ==
    IF IsNum(c) THEN c ELSE IF IsNumber(c) THEN Num(IntOf(c)) ELSE Num(0)

\* data[col] = pd.to_numeric(data[col], errors="coerce").fillna(0) for the
\* columns of cols that the table has; when two columns have the name,
\* data[col] is a table and pd.to_numeric raises TypeError
Coerce(t, cols) ==
    IF \E name \in cols : Count(t.columns, name) > 1 THEN TypeError
    ELSE [columns |-> t.columns,
          rows |-> [r \in 1..Len(t.rows) |->
                       [i \in 1..Len(t.columns) |->
                           IF t.columns[i] \in cols THEN to_numeric(t.rows[r][i])
                           ELSE t.rows[r][i]]]]

\* the elements of a sequence
Elements(seq) == {seq[i] : i \in 1..Len(seq)}

\* data[name] = value[row]: replaces the column when the table has it,
\* appends it otherwise
Assign(t, name, value) ==
    IF HasColumn(t.columns, name)
    THEN [columns |-> t.columns,
          rows |-> [r \in 1..Len(t.rows) |->
                       [i \in 1..Len(t.columns) |->
                           IF i = ColumnOf(t.columns, name)
                           THEN value[t.rows[r]] ELSE t.rows[r][i]]]]
    ELSE [columns |-> Append(t.columns, name),
          rows |-> [r \in 1..Len(t.rows) |-> Append(t.rows[r], value[t.rows[r]])]]

\* lines 48-50
NUMERIC_COLS == {
    <<"I", "V", "A">>, <<"I", "C", "A">>, <<"I", "C">>, <<"I", "N", "C">>, <<"I", "C", "L">>, <<"I", "N", "P", "P">>, <<"I", "B", "U", "A">>, <<"I", "C", "U", "I">>,
    <<"R", "e", "t", "e", " ", "I", "V", "A">>, <<"R", "e", "t", "e", " ", "R", "e", "n", "t", "a">>, <<"R", "e", "t", "e", " ", "I", "C", "A">>, <<"T", "o", "t", "a", "l">>}

\* lines 79-90: the variants of "Fecha Emision" and "Tipo de documento" (the
\* sheets below carry no reception date)
FixName(c) ==
    IF c \in {<<"T", "i", "p", "o", " ", "D", "e", " ", "D", "o", "c", "u", "m", "e", "n", "t", "o">>, <<"t", "i", "p", "o", " ", "d", "e", " ", "d", "o", "c", "u", "m", "e", "n", "t", "o">>}
    THEN <<"T", "i", "p", "o", " ", "d", "e", " ", "d", "o", "c", "u", "m", "e", "n", "t", "o">>
    ELSE IF c \in {<<"F", "e", "c", "h", "a", " ", "E", "m", "i", "s", "i", "o", "n">>, <<"F", "e", "c", "h", "a", " ", "e", "m", "i", "s", "i", "o'", "n">>, <<"f", "e", "c", "h", "a", " ", "e", "m", "i", "s", "i", "o'", "n">>}
    THEN <<"F", "e", "c", "h", "a", " ", "E", "m", "i", "s", "i", "o'", "n">>
    ELSE c

\* lines 118-130
_shorten_tipo(val) ==
    IF val = NaNCell THEN <<"D", "e", "s", "c", "o", "n", "o", "c", "i", "d", "o">>
    ELSE LET v == lower(str(val))
         IN  IF Contains(v, <<"n", "o", "t", "a", " ", "c", "r", "e'", "d", "i", "t", "o">>) \/ Contains(v, <<"n", "o", "t", "a", " ", "c", "r", "e", "d", "i", "t", "o">>)
             THEN <<"N", "o", "t", "a", " ", "C", "r", "e'", "d", "i", "t", "o">>
             ELSE IF Contains(v, <<"n", "o", "t", "a", " ", "d", "e'", "b", "i", "t", "o">>) \/ Contains(v, <<"n", "o", "t", "a", " ", "d", "e", "b", "i", "t", "o">>)
             THEN <<"N", "o", "t", "a", " ", "D", "e'", "b", "i", "t", "o">>
             ELSE IF Contains(v, <<"e", "l", "e", "c", "t", "r", "o'", "n", "i", "c", "a">>) \/ Contains(v, <<"e", "l", "e", "c", "t", "r", "o", "n", "i", "c", "a">>)
             THEN <<"F", "a", "c", "t", "u", "r", "a", " ", "E", "l", "e", "c", "t", "r", "o'", "n", "i", "c", "a">>
             ELSE IF Contains(v, <<"c", "o", "n", "t", "i", "n", "g", "e", "n", "c", "i", "a">>) THEN <<"C", "o", "n", "t", "i", "n", "g", "e", "n", "c", "i", "a">>
             ELSE str(val)

\* a missing date
NaT == <<"NaT">>

\* a cell that holds the date y-m-d
Date(y, m, d) == <<"@", y, m, d>>

IsLeap(y) == (y % 4 = 0 /\ y % 100 # 0) \/ y % 400 = 0

DaysInMonth(y, m) ==
    IF m = 2 THEN (IF IsLeap(y) THEN 29 ELSE 28)
    ELSE IF m \in {4, 6, 9, 11} THEN 30 ELSE 31

\* line 100: pd.to_datetime(cell, errors="coerce", dayfirst=True) on the text
\* cells of the sheets below: the date written dd-mm-yyyy, NaT for a missing
\* cell, any other text and a day that the month does not have
to_datetime_dayfirst(c) ==
    IF /\ Len(c) = 10
       /\ c[3] = "-"
       /\ c[6] = "-"
       /\ AllDigits(SubSeq(c, 1, 2))
       /\ AllDigits(SubSeq(c, 4, 5))
       /\ AllDigits(SubSeq(c, 7, 10))
    THEN LET d == IntOf(SubSeq(c, 1, 2))
             m == IntOf(SubSeq(c, 4, 5))
             y == IntOf(SubSeq(c, 7, 10))
         IN  IF m \in 1..12 /\ d \in 1..DaysInMonth(y, m) /\ y >= 1 THEN Date(y, m, d)
             ELSE NaT
    ELSE NaT

\* line 107: .dt.to_period("M").astype(str)
Mes(fecha) ==
    IF fecha = NaT THEN <<"N", "a", "T">>
    ELSE Digits(fecha[2]) \o <<"-">> \o Pad2(fecha[3])

\* line 138
meses == <<<<"E", "n", "e", "-", "F", "e", "b">>, <<"M", "a", "r", "-", "A", "b", "r">>, <<"M", "a", "y", "-", "J", "u", "n">>, <<"J", "u", "l", "-", "A", "g", "o">>, <<"S", "e", "p", "-", "O", "c", "t">>,
           <<"N", "o", "v", "-", "D", "i", "c">>>>

_bimestre_half(fecha) ==
    IF fecha = NaT THEN <<"S", "i", "n", " ", "f", "e", "c", "h", "a">>
    ELSE LET bim == (fecha[3] \div 2) + 1
         IN  <<"B", "i", "m", " ">> \o Digits(bim) \o <<" ", "(">>
             \o (IF bim \in 1..6 THEN meses[bim] ELSE <<>>) \o <<")", " ">> \o Digits(fecha[2])

\* lines 133-141
_bimestre(fecha) ==
    IF fecha = NaT THEN <<"S", "i", "n", " ", "f", "e", "c", "h", "a">>
    ELSE LET bim == ((fecha[3] - 1) \div 2) + 1
         IN  <<"B", "i", "m", " ">> \o Digits(bim) \o <<" ", "(">>
             \o (IF bim \in 1..6 THEN meses[bim] ELSE <<>>) \o <<")", " ">> \o Digits(fecha[2])

RECURSIVE DayOfYear(_, _, _)
DayOfYear(y, m, d) == IF m = 1 THEN d ELSE DaysInMonth(y, m - 1) + DayOfYear(y, m - 1, d)

\* Monday is 1, Sunday 7
Weekday(y, m, d) ==
    LET n == 365 * (y - 1) + ((y - 1) \div 4) - ((y - 1) \div 100)
             + ((y - 1) \div 400) + DayOfYear(y, m, d)
    IN  ((n - 1) % 7) + 1

WeeksIn(y) == IF Weekday(y, 1, 1) = 4 \/ Weekday(y, 12, 31) = 4 THEN 53 ELSE 52

\* line 109: .dt.isocalendar().week.astype(str)
Semana(fecha) ==
    IF fecha = NaT THEN <<"<", "N", "A", ">">>
    ELSE LET y == fecha[2]
             w == (DayOfYear(y, fecha[3], fecha[4]) - Weekday(y, fecha[3], fecha[4]) + 10)
                  \div 7
         IN  IF w < 1 THEN Digits(WeeksIn(y - 1))
             ELSE IF w > WeeksIn(y) THEN Digits(1)
             ELSE Digits(w)

Base_total(total, iva) == total

\* line 104: data["Total"] - data["IVA"] for one row
Base(total, iva) == Num(Val(total) - Val(iva))

\* lines 55-115; raw.iloc[0] of a sheet without rows raises IndexError
load_file(file) ==
    IF file.kind = "absent" THEN EmptyTable
    ELSE IF file.kind = "corrupt" THEN read_excel(file)
    ELSE
    LET raw == read_excel(file)
    IN  IF raw = <<>> THEN IndexError
        ELSE
        LET new     == lower(strip(str(raw[1][1]))) = <<"t", "i", "p", "o", " ", "d", "e", " ", "d", "o", "c", "u", "m", "e", "n", "t", "o">>
            headers == IF new THEN raw[1]
                       ELSE IF Len(raw) > 1 THEN raw[2] ELSE raw[1]
            data    == IF new THEN Tail(raw)
                       ELSE IF Len(raw) > 2 THEN SubSeq(raw, 3, Len(raw))
                       ELSE Tail(raw)
            named   == [columns |-> [i \in 1..Len(headers) |->
                                        FixName(strip(str(headers[i])))],
                        rows |-> data]
            numeric == Coerce(named, NUMERIC_COLS)
            coerced == IF HasColumn(numeric.columns, <<"F", "e", "c", "h", "a", " ", "E", "m", "i", "s", "i", "o'", "n">>)
                       THEN Assign(numeric, <<"F", "e", "c", "h", "a", " ", "E", "m", "i", "s", "i", "o'", "n">>,
                                [r \in Elements(numeric.rows) |->
                                    to_datetime_dayfirst(
                                        r[ColumnOf(numeric.columns, <<"F", "e", "c", "h", "a", " ", "E", "m", "i", "s", "i", "o'", "n">>)])])
                       ELSE numeric
            cols    == coerced.columns
            based   == IF HasColumn(cols, <<"T", "o", "t", "a", "l">>) /\ HasColumn(cols, <<"I", "V", "A">>)
                       THEN Assign(coerced, <<"B", "a", "s", "e">>,
                 [r \in Elements(coerced.rows) |-> Base(r[ColumnOf(cols, <<"T", "o", "t", "a", "l">>)],
                                                   r[ColumnOf(cols, <<"I", "V", "A">>)])])
                       ELSE coerced
            fcol    == ColumnOf(cols, <<"F", "e", "c", "h", "a", " ", "E", "m", "i", "s", "i", "o'", "n">>)
            withMes == Assign(based, <<"M", "e", "s">>,
                              [r \in Elements(based.rows) |-> Mes(r[fcol])])
            withBim == Assign(withMes, <<"B", "i", "m", "e", "s", "t", "r", "e">>,
                              [r \in Elements(withMes.rows) |-> _bimestre(r[fcol])])
            keyed   == IF HasColumn(cols, <<"F", "e", "c", "h", "a", " ", "E", "m", "i", "s", "i", "o'", "n">>)
                       THEN Assign(withBim, <<"S", "e", "m", "a", "n", "a">>,
                                [r \in Elements(withBim.rows) |-> Semana(r[fcol])])
                       ELSE based
        IN  IF numeric = TypeError THEN TypeError
            ELSE IF HasColumn(cols, <<"T", "i", "p", "o", " ", "d", "e", " ", "d", "o", "c", "u", "m", "e", "n", "t", "o">>)
            THEN Assign(keyed, <<"T", "i", "p", "o", "_", "L", "a", "b", "e", "l">>,
                 [r \in Elements(keyed.rows) |-> _shorten_tipo(
                                       r[ColumnOf(cols, <<"T", "i", "p", "o", " ", "d", "e", " ", "d", "o", "c", "u", "m", "e", "n", "t", "o">>)])])
            ELSE keyed

(***************************************************************************)
(* data_loader.py: load_nomina, load_exogena, load_retenciones             *)
(***************************************************************************)
\* isinstance(v, str) for a cell read without dtype=str
IsStrCell(c) == c # NaNCell /\ ~IsNumber(c)

\* len(row.dropna())
NonNull(row) == Len(SelectSeq(row, LAMBDA c : c # NaNCell))

\* the first row among those the loader accepts as header (ok), row 0 when
\* there is none (1-based here)
HeaderRow(raw, ok) ==
    IF \E i \in 1..Len(raw) : raw[i] \in ok
    THEN CHOOSE i \in 1..Len(raw) :
             raw[i] \in ok /\ \A j \in 1..(i - 1) : raw[j] \notin ok
    ELSE 1

\* dropna(how="all")
dropna(rows) == SelectSeq(rows, LAMBDA r : NonNull(r) > 0)

\* any(k in low for k in keys)
AnyIn(low, keys) == \E k \in keys : Contains(low, k)

\* the table below the header row, before the columns are renamed; raw.iloc
\* of a sheet without rows raises IndexError
BelowHeader(raw, ok) ==
    IF raw = <<>> THEN IndexError
    ELSE LET h == HeaderRow(raw, ok)
         IN  [columns |-> raw[h], rows |-> dropna(SubSeq(raw, h + 1, Len(raw)))]

\* the columns renamed by name, a function of the column names
Renamed(t, name) ==
    [columns |-> [i \in 1..Len(t.columns) |-> name[t.columns[i]]],
     rows |-> t.rows]

\* lines 365-390
NominaName(col) ==
    IF ~IsStrCell(col) \/ col = <<>> THEN col
    ELSE LET low == lower(col)
         IN  IF AnyIn(low, {<<"d", "e", "v", "e", "n", "g", "a", "d", "o">>, <<"b", "r", "u", "t", "o">>, <<"s", "a", "l", "a", "r", "i", "o", " ", "b", "a", "s", "e">>})
             THEN <<"D", "e", "v", "e", "n", "g", "a", "d", "o">>
             ELSE IF AnyIn(low, {<<"d", "e", "d", "u", "c", "i", "d", "o">>, <<"d", "e", "d", "u", "c", "c", "i", "o", "n">>, <<"d", "e", "s", "c", "u", "e", "n", "t", "o">>})
             THEN <<"D", "e", "d", "u", "c", "i", "d", "o">>
             ELSE IF AnyIn(low, {<<"r", "e", "t", "e">>, <<"r", "e", "t", "e", "n", "c", "i", "o", "n">>, <<"r", "e", "t", ".", " ", "f", "u", "e", "n", "t", "e">>})
             THEN <<"R", "e", "t", "e", " ", "F", "u", "e", "n", "t", "e">>
             ELSE IF AnyIn(low, {<<"s", "a", "l", "u", "d">>, <<"e", "p", "s">>}) THEN <<"S", "a", "l", "u", "d", " ", "E", "m", "p", "l", "e", "a", "d", "o">>
             ELSE IF AnyIn(low, {<<"p", "e", "n", "s", "i", "o", "n">>, <<"a", "f", "p">>}) THEN <<"P", "e", "n", "s", "i", "o", "n", " ", "E", "m", "p", "l", "e", "a", "d", "o">>
             ELSE IF AnyIn(low, {<<"t", "o", "t", "a", "l">>, <<"n", "e", "t", "o">>, <<"p", "a", "g", "a", "r">>})
                     /\ ~Contains(low, <<"d", "e", "v">>)
             THEN <<"T", "o", "t", "a", "l", " ", "P", "a", "g", "a", "r">>
             ELSE IF AnyIn(low, {<<"n", "o", "m", "b", "r", "e">>, <<"e", "m", "p", "l", "e", "a", "d", "o">>, <<"t", "r", "a", "b", "a", "j", "a", "d", "o", "r">>})
             THEN <<"N", "o", "m", "b", "r", "e", " ", "E", "m", "p", "l", "e", "a", "d", "o">>
             ELSE IF AnyIn(low, {<<"n", "i", "t">>, <<"c", "e", "d", "u", "l", "a">>, <<"i", "d", "e", "n", "t", "i", "f", "i", "c", "a", "c", "i", "o", "n">>})
             THEN <<"N", "I", "T", " ", "E", "m", "p", "l", "e", "a", "d", "o">>
             ELSE IF AnyIn(low, {<<"f", "e", "c", "h", "a">>, <<"p", "e", "r", "i", "o", "d", "o">>, <<"p", "e", "r", "i'", "o", "d", "o">>})
             THEN <<"P", "e", "r", "i", "o", "d", "o">>
             ELSE col

\* a month as the sheets below write it: dddd-dd
IsMonth(c) ==
    /\ Len(c) = 7
    /\ c[5] = "-"
    /\ AllDigits(SubSeq(c, 1, 4))
    /\ AllDigits(SubSeq(c, 6, 7))

\* pd.to_datetime(cell, errors="coerce") on the text cells of the sheets
\* below: the first day of the month written, NaT for any other text
to_datetime(c) == IF IsMonth(c) THEN c \o <<"-", "0", "1">> ELSE NaT

\* .dt.to_period("M").astype(str)
to_period_M(d) == IF d = NaT THEN NaT ELSE SubSeq(d, 1, 7)

\* lines 334-410
load_nomina(file) ==
    IF file.kind # "xlsx" THEN EmptyTable
    ELSE
    LET below == BelowHeader(read_excel(file),
                 {row \in Elements(read_excel(file)) : NonNull(row) >= 3
                                 /\ \E i \in 1..Len(row) : IsStrCell(row[i])})
    IN  IF below = IndexError THEN IndexError
        ELSE
        LET data    == Renamed(below, [c \in Elements(below.columns) |-> NominaName(c)])
            coerced == Coerce(data, {<<"D", "e", "v", "e", "n", "g", "a", "d", "o">>, <<"D", "e", "d", "u", "c", "i", "d", "o">>, <<"R", "e", "t", "e", " ", "F", "u", "e", "n", "t", "e">>,
                                     <<"S", "a", "l", "u", "d", " ", "E", "m", "p", "l", "e", "a", "d", "o">>, <<"P", "e", "n", "s", "i", "o", "n", " ", "E", "m", "p", "l", "e", "a", "d", "o">>,
                                     <<"T", "o", "t", "a", "l", " ", "P", "a", "g", "a", "r">>})
            cols    == coerced.columns
            dev     == IF ~HasColumn(cols, <<"D", "e", "v", "e", "n", "g", "a", "d", "o">>) /\ HasColumn(cols, <<"T", "o", "t", "a", "l">>)
                       THEN Assign(coerced, <<"D", "e", "v", "e", "n", "g", "a", "d", "o">>,
                 [r \in Elements(coerced.rows) |-> to_numeric(r[ColumnOf(cols, <<"T", "o", "t", "a", "l">>)])])
                       ELSE coerced
        IN  IF coerced = TypeError THEN TypeError
            ELSE IF Count(cols, <<"P", "e", "r", "i", "o", "d", "o">>) > 1 THEN ValueError
            ELSE IF HasColumn(cols, <<"P", "e", "r", "i", "o", "d", "o">>)
            THEN LET dated == Assign(dev, <<"P", "e", "r", "i", "o", "d", "o">>,
                 [r \in Elements(dev.rows) |-> to_datetime(r[ColumnOf(cols, <<"P", "e", "r", "i", "o", "d", "o">>)])])
                 IN  Assign(dated, <<"M", "e", "s">>,
                 [r \in Elements(dated.rows) |-> to_period_M(r[ColumnOf(cols, <<"P", "e", "r", "i", "o", "d", "o">>)])])
            ELSE dev

\* lines 459-477
ExogenaName(col) ==
    IF ~IsStrCell(col) THEN col
    ELSE LET low == lower(col)
         IN  IF AnyIn(low, {<<"n", "i", "t", " ", "t", "e", "r", "c", "e", "r", "o">>, <<"n", "i", "t", " ", "d", "e", "l">>, <<"i", "d", "e", "n", "t", "i", "f", "i", "c", "a", "c", "i", "o", "n">>})
             THEN <<"N", "I", "T", " ", "T", "e", "r", "c", "e", "r", "o">>
             ELSE IF AnyIn(low, {<<"n", "o", "m", "b", "r", "e">>, <<"r", "a", "z", "o", "n", " ", "s", "o", "c", "i", "a", "l">>, <<"r", "a", "z", "o'", "n">>})
             THEN <<"N", "o", "m", "b", "r", "e", " ", "T", "e", "r", "c", "e", "r", "o">>
             ELSE IF AnyIn(low, {<<"c", "o", "n", "c", "e", "p", "t", "o">>, <<"f", "o", "r", "m", "a", "t", "o">>}) THEN <<"C", "o", "n", "c", "e", "p", "t", "o">>
             ELSE IF AnyIn(low, {<<"v", "a", "l", "o", "r", " ", "b", "r", "u", "t", "o">>, <<"m", "o", "n", "t", "o">>, <<"v", "a", "l", "o", "r", " ", "p", "a", "g", "a", "d", "o">>,
                                 <<"i", "n", "g", "r", "e", "s", "o">>})
             THEN <<"V", "a", "l", "o", "r", " ", "B", "r", "u", "t", "o">>
             ELSE IF AnyIn(low, {<<"r", "e", "t", "e", "n", "c", "i", "o", "n">>, <<"r", "e", "t", "e", "n", "c", "i", "o'", "n">>, <<"r", "e", "t", "e">>})
             THEN <<"R", "e", "t", "e", "n", "c", "i", "o", "n">>
             ELSE IF AnyIn(low, {<<"v", "a", "l", "o", "r", " ", "n", "e", "t", "o">>, <<"n", "e", "t", "o">>}) THEN <<"V", "a", "l", "o", "r", " ", "N", "e", "t", "o">>
             ELSE IF AnyIn(low, {<<"p", "e", "r", "i", "o", "d", "o">>, <<"p", "e", "r", "i'", "o", "d", "o">>, <<"a", "n~", "o">>, <<"a", "n", "i", "o">>})
             THEN <<"P", "e", "r", "i", "o", "d", "o">>
             ELSE col

\* lines 430-484
load_exogena(file) ==
    IF file.kind # "xlsx" THEN EmptyTable
    ELSE
    LET below == BelowHeader(read_excel(file),
                 {row \in Elements(read_excel(file)) : NonNull(row) >= 4})
    IN  IF below = IndexError THEN IndexError
        ELSE Coerce(Renamed(below, [c \in Elements(below.columns) |-> ExogenaName(c)]),
                    {<<"V", "a", "l", "o", "r", " ", "B", "r", "u", "t", "o">>, <<"R", "e", "t", "e", "n", "c", "i", "o", "n">>, <<"V", "a", "l", "o", "r", " ", "N", "e", "t", "o">>})

\* lines 514-532
RetencionesName(col) ==
    IF ~IsStrCell(col) THEN col
    ELSE LET low == lower(col)
         IN  IF AnyIn(low, {<<"a", "g", "e", "n", "t", "e">>, <<"r", "e", "t", "e", "n", "e", "d", "o", "r">>}) THEN <<"A", "g", "e", "n", "t", "e", " ", "R", "e", "t", "e", "n", "e", "d", "o", "r">>
             ELSE IF Contains(low, <<"n", "i", "t">>) THEN <<"N", "I", "T", " ", "R", "e", "t", "e", "n", "e", "d", "o", "r">>
             ELSE IF Contains(low, <<"c", "o", "n", "c", "e", "p", "t", "o">>) THEN <<"C", "o", "n", "c", "e", "p", "t", "o">>
             ELSE IF Contains(low, <<"b", "a", "s", "e">>) THEN <<"B", "a", "s", "e">>
             ELSE IF AnyIn(low, {<<"t", "a", "r", "i", "f", "a">>, <<"%">>}) THEN <<"T", "a", "r", "i", "f", "a">>
             ELSE IF \/ AnyIn(low, {<<"v", "a", "l", "o", "r">>, <<"r", "e", "t", "e", "n", "i", "d", "o">>})
                     \/ Contains(replace(low, "o'", "o"), <<"r", "e", "t", "e", "n", "c", "i", "o", "n">>)
             THEN <<"V", "a", "l", "o", "r", " ", "R", "e", "t", "e", "n", "i", "d", "o">>
             ELSE IF AnyIn(low, {<<"p", "e", "r", "i", "o", "d", "o">>, <<"p", "e", "r", "i'", "o", "d", "o">>}) THEN <<"P", "e", "r", "i", "o", "d", "o">>
             ELSE col

\* lines 490-541
load_retenciones(file) ==
    IF file.kind # "xlsx" THEN EmptyTable
    ELSE
    LET below == BelowHeader(read_excel(file),
                 {row \in Elements(read_excel(file)) : NonNull(row) >= 3})
    IN  IF below = IndexError THEN IndexError
        ELSE Coerce(Renamed(below, [c \in Elements(below.columns) |-> RetencionesName(c)]),
                    {<<"B", "a", "s", "e">>, <<"T", "a", "r", "i", "f", "a">>, <<"V", "a", "l", "o", "r", " ", "R", "e", "t", "e", "n", "i", "d", "o">>})

(***************************************************************************)
(* The loaders applied to workbooks of up to MaxRows rows of four cells    *)
(***************************************************************************)
MaxRows == 3

TitleRow == <<<<"R", "e", "p", "o", "r", "t", "e">>, NaNCell, NaNCell, NaNCell>>

HeaderInvoices == <<<<"T", "o", "t", "a", "l">>, <<"I", "V", "A">>, <<"C", "U", "F", "E", "/", "C", "U", "D", "E">>, <<"B", "a", "s", "e">>>>

HeaderNoIva == <<<<"T", "o", "t", "a", "l">>, <<"B", "a", "s", "e">>, <<"C", "U", "F", "E", "/", "C", "U", "D", "E">>, <<"F", "o", "l", "i", "o">>>>

HeaderNew == <<<<"T", "i", "p", "o", " ", "d", "e", " ", "d", "o", "c", "u", "m", "e", "n", "t", "o">>, <<"T", "o", "t", "a", "l">>, <<"I", "V", "A">>, <<"C", "U", "F", "E", "/", "C", "U", "D", "E">>>>

HeaderNomina == <<<<"D", "e", "v", "e", "n", "g", "a", "d", "o">>, <<"N", "I", "T">>, <<"P", "e", "r", "i", "o", "d", "o">>, <<"N", "o", "m", "b", "r", "e">>>>

HeaderNominaLong == <<<<"D", "e", "v", "e", "n", "g", "a", "d", "o">>, <<"N", "I", "T", " ", "E", "m", "p", "l", "e", "a", "d", "o">>, <<"P", "e", "r", "i", "o", "d", "o">>, <<"N", "o", "m", "b", "r", "e">>>>

DataNumbers == <<<<"1", "0", "0">>, <<"1", "9">>, <<"K", "1">>, <<"7">>>>

DataText == <<<<"a", "b", "c">>, NaNCell, <<"2", "0", "2", "4", "-", "0", "1">>, <<"x">>>>

DataBlank == <<NaNCell, NaNCell, NaNCell, NaNCell>>

DataTipo == <<<<"F", "a", "c", "t", "u", "r", "a", " ", "e", "l", "e", "c", "t", "r", "o", "n", "i", "c", "a">>, <<"1", "0", "0">>, <<"K", "1">>, <<"K", "2">>>>

HeaderRete == <<<<"D", "e", "s", "c", "u", "e", "n", "t", "o", " ", "r", "e", "t", "e", "f", "u", "e", "n", "t", "e">>, <<"C", "o", "n", "c", "e", "p", "t", "o", " ", "r", "e", "t", "e", "n", "c", "i", "o", "n">>, <<"N", "I", "T">>,
                <<"F", "o", "l", "i", "o">>>>

\* two headers of one keyword group in each of the three loaders
HeaderTwice == <<<<"R", "e", "t", "e", "n", "c", "i", "o", "n">>, <<"V", "a", "l", "o", "r", " ", "r", "e", "t", "e", "n", "c", "i", "o", "n">>, <<"N", "I", "T">>, <<"P", "e", "r", "i", "o", "d", "o">>>>

SheetRows == {TitleRow, HeaderInvoices, HeaderNoIva, HeaderNew, HeaderNomina,
              HeaderNominaLong, HeaderRete, HeaderTwice, DataNumbers, DataText,
              DataBlank, DataTipo}

Loaders == {"load_file", "load_nomina", "load_exogena", "load_retenciones"}

HeaderFecha == <<<<"F", "e", "c", "h", "a", " ", "E", "m", "i", "s", "i", "o'", "n">>, <<"T", "o", "t", "a", "l">>, <<"I", "V", "A">>, <<"C", "U", "F", "E", "/", "C", "U", "D", "E">>>>

\* issue dates: written dd-mm-yyyy, missing, no date, a day that is none
FechaCells ==
    {<<"1", "5", "-", "0", "3", "-", "2", "0", "2", "4">>, <<"0", "1", "-", "0", "1", "-", "2", "0", "2", "3">>, <<"3", "1", "-", "1", "2", "-", "2", "0", "2", "4">>, <<"2", "9", "-", "0", "2", "-", "2", "0", "2", "4">>,
     <<"1", "5", "-", "0", "7", "-", "2", "0", "2", "4">>, <<"3", "0", "-", "0", "9", "-", "2", "0", "2", "4">>, <<"0", "1", "-", "1", "1", "-", "2", "0", "2", "4">>, <<"1", "0", "-", "0", "5", "-", "2", "0", "2", "4">>,
     NaNCell, <<"a", "b", "c">>, <<"3", "1", "-", "0", "2", "-", "2", "0", "2", "4">>}

FechaRows == {<<f, <<"1", "0", "0">>, <<"1", "9">>, <<"K", "1">>>> : f \in FechaCells}

Absent == [kind |-> "absent", sheet |-> <<>>]

Corrupt == [kind |-> "corrupt", sheet |-> <<>>]

InitLoad ==
    /\ InitUpload
    /\ res = [done |-> FALSE, out |-> EmptyTable]
    /\ \E l \in Loaders :
          \/ \E f \in {Absent, Corrupt} : arg = [loader |-> l, file |-> f]
          \/ \E n \in 0..MaxRows : \E sheet \in [1..n -> SheetRows] :
                 arg = [loader |-> l, file |-> [kind |-> "xlsx", sheet |-> sheet]]
          \/ \E n \in 0..(MaxRows - 1) : \E data \in [1..n -> FechaRows] :
                 /\ l = "load_file"
                 /\ arg = [loader |-> l,
                           file |-> [kind |-> "xlsx",
                                     sheet |-> <<TitleRow, HeaderFecha>> \o data]]

Return(loader, out) ==
    /\ ~res.done
    /\ arg.loader = loader
    /\ res' = [done |-> TRUE, out |-> out]
    /\ UNCHANGED <<arg, now, disk, uploaded_files, mergedCache, loadCache, run,
                   nsaved>>

LoadFile == Return("load_file", load_file(arg.file))

LoadNomina == Return("load_nomina", load_nomina(arg.file))

LoadExogena == Return("load_exogena", load_exogena(arg.file))

LoadRetenciones == Return("load_retenciones", load_retenciones(arg.file))

NextLoad ==
    \/ LoadFile
    \/ LoadNomina
    \/ LoadExogena
    \/ LoadRetenciones

SpecLoad == InitLoad /\ [][NextLoad]_vars

Raised(out) == "raised" \in DOMAIN out

\* C13: handed a workbook that cannot be opened or read (vanished or
\* corrupt), every loader raises instead of returning a result.
C13_HardFailuresPropagate ==
    (res.done /\ arg.file.kind \in {"absent", "corrupt"}) => Raised(res.out)

HeaderRows == {HeaderInvoices, HeaderNoIva, HeaderNew, HeaderNomina,
               HeaderNominaLong}

\* a sheet without data rows: empty, a title row only, a header row only, or
\* a title row and a header row
ZeroDataRows(sheet) ==
    \/ sheet = <<>>
    \/ sheet = <<TitleRow>>
    \/ \E h \in HeaderRows : sheet = <<h>> \/ sheet = <<TitleRow, h>>

\* C15: a readable workbook whose sheet has no data rows makes every loader
\* return an empty table without raising.
C15_NoDataEmptyTable ==
    (res.done /\ arg.file.kind = "xlsx" /\ ZeroDataRows(arg.file.sheet)) =>
        (~Raised(res.out) /\ res.out.rows = <<>>)

\* every row of table t has a Base equal to its Total minus its IVA
BaseIsTotalMinusIva(t) ==
    /\ HasColumn(t.columns, <<"T", "o", "t", "a", "l">>)
    /\ HasColumn(t.columns, <<"I", "V", "A">>)
    /\ HasColumn(t.columns, <<"B", "a", "s", "e">>)
    /\ \A r \in 1..Len(t.rows) :
          t.rows[r][ColumnOf(t.columns, <<"B", "a", "s", "e">>)] =
              Num(Val(t.rows[r][ColumnOf(t.columns, <<"T", "o", "t", "a", "l">>)])
                  - Val(t.rows[r][ColumnOf(t.columns, <<"I", "V", "A">>)]))

\* C17: every row of a table returned by load_file has Base = Total - IVA.
C17_BaseInEveryRow ==
    (res.done /\ arg.loader = "load_file" /\ ~Raised(res.out)
        /\ res.out.rows # <<>>) => BaseIsTotalMinusIva(res.out)

\* C17 (amended): when the header of the sheet has both a Total and an IVA
\* column, every row returned by load_file has Base = Total - IVA of the
\* coerced cells, whatever Base the sheet held; when one of them is missing no
\* Base is derived, and a Base column of the sheet keeps its cells as read.
C17_BaseWhenBothColumns ==
    (res.done /\ arg.loader = "load_file" /\ ~Raised(res.out)) =>
        LET t == res.out
        IN  IF HasColumn(t.columns, <<"T", "o", "t", "a", "l">>) /\ HasColumn(t.columns, <<"I", "V", "A">>)
            THEN BaseIsTotalMinusIva(t)
            ELSE HasColumn(t.columns, <<"B", "a", "s", "e">>) =>
                     \A r \in 1..Len(t.rows) :
                         ~IsNum(t.rows[r][ColumnOf(t.columns, <<"B", "a", "s", "e">>)])

C17_Witness ==
    /\ res.done
    /\ arg.loader = "load_file"
    /\ arg.file.kind = "xlsx"
    /\ arg.file.sheet = <<TitleRow, HeaderInvoices, DataNumbers>>
    /\ res.out.rows = <<<<Num(100), Num(19), <<"K", "1">>, Num(81)>>>>

\* C24: for a sheet with rows load_file returns a table, without raising,
\* whose rows are the sheet's rows after the header row (row 0 when the
\* first cell reads "tipo de documento", row 1 otherwise), one output row
\* for each, with a monetary cell that is no number read as 0 and the
\* other cells as in the sheet
C24_HeaderConvention ==
    (res.done /\ arg.loader = "load_file" /\ arg.file.kind = "xlsx"
       /\ arg.file.sheet # <<>>) =>
        LET raw  == arg.file.sheet
            new  == lower(strip(str(raw[1][1]))) = <<"t", "i", "p", "o", " ", "d", "e", " ", "d", "o", "c", "u", "m", "e", "n", "t", "o">>
            h    == IF new THEN 1 ELSE 2
            data == SubSeq(raw, h + 1, Len(raw))
            out  == res.out
        IN  /\ ~Raised(out)
            /\ Len(out.rows) = Len(data)
            /\ \A i \in 1..Len(data) : \A c \in 1..Len(data[i]) :
                  LET name == strip(str(raw[h][c]))
                  IN  IF name = <<"B", "a", "s", "e">> THEN TRUE
                      ELSE IF name \in NUMERIC_COLS
                      THEN out.rows[i][c] = (IF IsNumber(data[i][c])
                                             THEN Num(IntOf(data[i][c])) ELSE Num(0))
                      ELSE out.rows[i][c] = data[i][c]

\* the cell of a row under a column
Under(t, r, name) == t.rows[r][ColumnOf(t.columns, name)]

\* the month pair of each two-month period
MonthPair(bim) ==
    CASE bim = 1 -> <<"E", "n", "e", "-", "F", "e", "b">>
      [] bim = 2 -> <<"M", "a", "r", "-", "A", "b", "r">>
      [] bim = 3 -> <<"M", "a", "y", "-", "J", "u", "n">>
      [] bim = 4 -> <<"J", "u", "l", "-", "A", "g", "o">>
      [] bim = 5 -> <<"S", "e", "p", "-", "O", "c", "t">>
      [] bim = 6 -> <<"N", "o", "v", "-", "D", "i", "c">>

\* C25: in a table of load_file with an issue-date column, a row whose
\* date is missing has Mes "NaT", Bimestre "Sin fecha" and Semana "<NA>", and
\* a row dated in month m has Bimestre "Bim k (pair) year" with
\* k = ((m - 1) div 2) + 1, one of 1..6
C25_TemporalKeys ==
    (res.done /\ arg.loader = "load_file" /\ ~Raised(res.out)
       /\ HasColumn(res.out.columns, <<"F", "e", "c", "h", "a", " ", "E", "m", "i", "s", "i", "o'", "n">>)) =>
        LET t == res.out
        IN  /\ \A name \in {<<"M", "e", "s">>, <<"B", "i", "m", "e", "s", "t", "r", "e">>, <<"S", "e", "m", "a", "n", "a">>} : HasColumn(t.columns, name)
            /\ \A r \in 1..Len(t.rows) :
                  LET fecha == Under(t, r, <<"F", "e", "c", "h", "a", " ", "E", "m", "i", "s", "i", "o'", "n">>)
                  IN  IF fecha = NaT
                      THEN /\ Under(t, r, <<"M", "e", "s">>) = <<"N", "a", "T">>
                           /\ Under(t, r, <<"B", "i", "m", "e", "s", "t", "r", "e">>) = <<"S", "i", "n", " ", "f", "e", "c", "h", "a">>
                           /\ Under(t, r, <<"S", "e", "m", "a", "n", "a">>) = <<"<", "N", "A", ">">>
                      ELSE LET k == ((fecha[3] - 1) \div 2) + 1
                           IN  /\ k \in 1..6
                               /\ Under(t, r, <<"B", "i", "m", "e", "s", "t", "r", "e">>) =
                                      <<"B", "i", "m", " ">> \o Digits(k) \o <<" ", "(">> \o MonthPair(k)
                                      \o <<")", " ">> \o Digits(fecha[2])

C25_Witness ==
    /\ res.done
    /\ arg.loader = "load_file"
    /\ arg.file.sheet = <<TitleRow, HeaderFecha,
                          <<<<"a", "b", "c">>, <<"1", "0", "0">>, <<"1", "9">>, <<"K", "1">>>>,
                          <<<<"1", "5", "-", "0", "3", "-", "2", "0", "2", "4">>, <<"1", "0", "0">>, <<"1", "9">>, <<"K", "1">>>>>>
    /\ ~Raised(res.out)
    /\ Len(res.out.rows) = 2
    /\ Under(res.out, 1, <<"B", "i", "m", "e", "s", "t", "r", "e">>) = <<"S", "i", "n", " ", "f", "e", "c", "h", "a">>
    /\ Under(res.out, 2, <<"B", "i", "m", "e", "s", "t", "r", "e">>) = <<"B", "i", "m", " ", "2", " ", "(", "M", "a", "r", "-", "A", "b", "r", ")", " ", "2", "0", "2", "4">>
    /\ Under(res.out, 2, <<"S", "e", "m", "a", "n", "a">>) = <<"1", "1">>

\* the withholding-amount field of each loader
Withholding(loader) ==
    CASE loader = "load_nomina" -> <<"R", "e", "t", "e", " ", "F", "u", "e", "n", "t", "e">>
      [] loader = "load_exogena" -> <<"R", "e", "t", "e", "n", "c", "i", "o", "n">>
      [] loader = "load_retenciones" -> <<"V", "a", "l", "o", "r", " ", "R", "e", "t", "e", "n", "i", "d", "o">>

\* C26: when the first row of the sheet is the header (four text cells),
\* every header with "rete" in it becomes the withholding-amount field of
\* the loader, and a header without any keyword ("Folio") keeps its name
C26_ReteToWithholding ==
    (res.done /\ arg.loader # "load_file" /\ arg.file.kind = "xlsx"
       /\ arg.file.sheet # <<>> /\ ~Raised(res.out)
       /\ \A c \in 1..4 : IsStrCell(arg.file.sheet[1][c])) =>
        \A c \in 1..4 :
            LET header == arg.file.sheet[1][c]
            IN  /\ Contains(lower(header), <<"r", "e", "t", "e">>)
                    => res.out.columns[c] = Withholding(arg.loader)
                /\ header = <<"F", "o", "l", "i", "o">> => res.out.columns[c] = header

\* the canonical fields of each loader
Canonical(loader) ==
    CASE loader = "load_nomina" ->
             {<<"D", "e", "v", "e", "n", "g", "a", "d", "o">>, <<"D", "e", "d", "u", "c", "i", "d", "o">>, <<"R", "e", "t", "e", " ", "F", "u", "e", "n", "t", "e">>, <<"S", "a", "l", "u", "d", " ", "E", "m", "p", "l", "e", "a", "d", "o">>,
              <<"P", "e", "n", "s", "i", "o", "n", " ", "E", "m", "p", "l", "e", "a", "d", "o">>, <<"T", "o", "t", "a", "l", " ", "P", "a", "g", "a", "r">>, <<"N", "o", "m", "b", "r", "e", " ", "E", "m", "p", "l", "e", "a", "d", "o">>,
              <<"N", "I", "T", " ", "E", "m", "p", "l", "e", "a", "d", "o">>, <<"P", "e", "r", "i", "o", "d", "o">>}
      [] loader = "load_exogena" ->
             {<<"N", "I", "T", " ", "T", "e", "r", "c", "e", "r", "o">>, <<"N", "o", "m", "b", "r", "e", " ", "T", "e", "r", "c", "e", "r", "o">>, <<"C", "o", "n", "c", "e", "p", "t", "o">>, <<"V", "a", "l", "o", "r", " ", "B", "r", "u", "t", "o">>,
              <<"R", "e", "t", "e", "n", "c", "i", "o", "n">>, <<"V", "a", "l", "o", "r", " ", "N", "e", "t", "o">>, <<"P", "e", "r", "i", "o", "d", "o">>}
      [] loader = "load_retenciones" ->
             {<<"A", "g", "e", "n", "t", "e", " ", "R", "e", "t", "e", "n", "e", "d", "o", "r">>, <<"N", "I", "T", " ", "R", "e", "t", "e", "n", "e", "d", "o", "r">>, <<"C", "o", "n", "c", "e", "p", "t", "o">>, <<"B", "a", "s", "e">>,
              <<"T", "a", "r", "i", "f", "a">>, <<"V", "a", "l", "o", "r", " ", "R", "e", "t", "e", "n", "i", "d", "o">>, <<"P", "e", "r", "i", "o", "d", "o">>}

\* C30: load_nomina, load_exogena and load_retenciones do not raise on the
\* headers of a sheet (TypeError, ValueError), and no canonical field names
\* two columns of the table they return
C30_CanonicalUnique ==
    (res.done /\ arg.loader # "load_file" /\ arg.file.kind = "xlsx") =>
        /\ res.out \notin {TypeError, ValueError}
        /\ ~Raised(res.out) =>
               \A name \in Canonical(arg.loader) : Count(res.out.columns, name) <= 1

(***************************************************************************)
(* bank_analyzer.py: _detect_bank and parse_bank_statement                 *)
(* A PDF is absent, corrupt or readable. A readable one is its number of   *)
(* pages, the text of its first pages, the matches of tx_pat (lines), the  *)
(* dated rows of its tables with the columns their header names (table,    *)
(* cols) and the matches of the pattern of _parse_text_regex (text).       *)
(***************************************************************************)
\* lines 27-41, in the order of the source
BANK_KEYWORDS == <<
    [bank |-> "Bancolombia",
     kws |-> {<<"b", "a", "n", "c", "o", "l", "o", "m", "b", "i", "a">>, <<"s", "u", "c", "u", "r", "s", "a", "l", " ", "v", "i", "r", "t", "u", "a", "l", " ", "p", "e", "r", "s", "o", "n", "a", "s">>, <<"b", "a", "n", "c", "o", "l", "o", "m", "b", "i", "a", " ", "s", ".", "a">>,
              <<"e", "s", "t", "a", "d", "o", " ", "d", "e", " ", "c", "u", "e", "n", "t", "a">>, <<"c", "u", "e", "n", "t", "a", " ", "d", "e", " ", "a", "h", "o", "r", "r", "o", "s">>}],
    [bank |-> "Davivienda", kws |-> {<<"d", "a", "v", "i", "v", "i", "e", "n", "d", "a">>, <<"c", "a", "s", "a", " ", "r", "o", "j", "a">>}],
    [bank |-> "Banco de Bogota'", kws |-> {<<"b", "a", "n", "c", "o", " ", "d", "e", " ", "b", "o", "g", "o", "t", "a">>, <<"b", "a", "n", "c", "o", " ", "d", "e", " ", "b", "o", "g", "o", "t", "a'">>}],
    [bank |-> "BBVA", kws |-> {<<"b", "b", "v", "a">>}],
    [bank |-> "Nequi", kws |-> {<<"n", "e", "q", "u", "i">>}],
    [bank |-> "Bold", kws |-> {<<"b", "o", "l", "d", ".", "c", "o">>, <<"d", "a", "t", "a", "f", "o", "n", "o", " ", "b", "o", "l", "d">>, <<"b", "o", "l", "d", " ", "s", ".", "a">>}],
    [bank |-> "Banco Popular", kws |-> {<<"b", "a", "n", "c", "o", " ", "p", "o", "p", "u", "l", "a", "r">>}],
    [bank |-> "Colpatria", kws |-> {<<"c", "o", "l", "p", "a", "t", "r", "i", "a">>, <<"s", "c", "o", "t", "i", "a", "b", "a", "n", "k">>}],
    [bank |-> "Bancoomeva", kws |-> {<<"b", "a", "n", "c", "o", "o", "m", "e", "v", "a">>}],
    [bank |-> "Banco Caja Social", kws |-> {<<"c", "a", "j", "a", " ", "s", "o", "c", "i", "a", "l">>}],
    [bank |-> "Itau'", kws |-> {<<"i", "t", "a", "u">>, <<"i", "t", "a", "u'">>}],
    [bank |-> "AV Villas", kws |-> {<<"a", "v", " ", "v", "i", "l", "l", "a", "s">>}]>>

BancoGenerico == "Banco Gene'rico"

\* lines 108-113
_detect_bank(text) ==
    LET tl   == lower(text)
        hits == {i \in 1..Len(BANK_KEYWORDS) : AnyIn(tl, BANK_KEYWORDS[i].kws)}
    IN  IF hits = {} THEN BancoGenerico
        ELSE BANK_KEYWORDS[CHOOSE i \in hits : \A j \in hits : i <= j].bank

PDFSyntaxError == [raised |-> "PDFSyntaxError"]

\* header_text: the text of the first two pages
HeaderText(pdf) == IF pdf.pages = 0 THEN <<>> ELSE pdf.header

parse_bank_statement_banco_late(pdf) ==
    IF pdf.kind = "absent" THEN FileNotFoundError
    ELSE IF pdf.kind = "corrupt" THEN PDFSyntaxError
    ELSE IF pdf.pages = 0 THEN [banco |-> BancoGenerico, movimientos |-> <<>>]
    ELSE
    LET banco == _detect_bank(HeaderText(pdf))
        norm  == _normalize_from_table(pdf.table, pdf.cols)
        movs  == IF banco = "Bancolombia" THEN _parse_bancolombia(pdf)
                 ELSE IF Len(pdf.table) >= 3 /\ Len(norm) >= 2 THEN norm
                 ELSE IF pdf.text # <<>> THEN _normalize_from_text(pdf.text)
                 ELSE <<>>
    IN  [banco |-> IF movs = <<>> THEN BancoGenerico ELSE banco,
         movimientos |-> movs]

\* lines 640-716; an exception of pdfplumber.open is logged and raised again
parse_bank_statement(pdf) ==
    IF pdf.kind = "absent" THEN FileNotFoundError
    ELSE IF pdf.kind = "corrupt" THEN PDFSyntaxError
    ELSE IF pdf.pages = 0 THEN [banco |-> BancoGenerico, movimientos |-> <<>>]
    ELSE
    LET banco == _detect_bank(HeaderText(pdf))
        norm  == _normalize_from_table(pdf.table, pdf.cols)
    IN  IF banco = "Bancolombia"
        THEN [banco |-> banco, movimientos |-> _parse_bancolombia(pdf)]
        ELSE IF Len(pdf.table) >= 3 /\ Len(norm) >= 2
        THEN [banco |-> banco, movimientos |-> norm]
        ELSE IF pdf.text # <<>>
        THEN [banco |-> banco, movimientos |-> _normalize_from_text(pdf.text)]
        ELSE [banco |-> banco, movimientos |-> <<>>]

(***************************************************************************)
(* parse_bank_statement applied to PDFs of up to MaxLines lines            *)
(***************************************************************************)
Headers == {<<"B", "A", "N", "C", "O", "L", "O", "M", "B", "I", "A", " ", "S", ".", "A", ".">>, <<"B", "a", "n", "c", "o", " ", "D", "a", "v", "i", "v", "i", "e", "n", "d", "a">>, <<"E", "s", "t", "a", "d", "o", " ", "d", "e", " ", "c", "u", "e", "n", "t", "a">>,
            <<"E", "x", "t", "r", "a", "c", "t", "o">>}

Pdf(pages, header, lines, table, text) ==
    [kind |-> "pdf", pages |-> pages, header |-> header, saldo_anterior |-> Cell0,
     hasta |-> Hasta2024_06, today |-> [year |-> 2026, month |-> 11],
     lines |-> lines, table |-> table, cols |-> {"debito"}, text |-> text]

NoPdf(kind) ==
    [kind |-> kind, pages |-> 0, header |-> <<>>, saldo_anterior |-> Cell0,
     hasta |-> <<>>, today |-> [year |-> 2026, month |-> 11],
     lines |-> <<>>, table |-> <<>>, cols |-> {}, text |-> <<>>]

InitStatement ==
    /\ InitUpload
    /\ res = [done |-> FALSE, out |-> [banco |-> "", movimientos |-> <<>>]]
    /\ \/ \E k \in {"absent", "corrupt"} : arg = NoPdf(k)
       \/ arg = Pdf(0, <<>>, <<>>, <<>>, <<>>)
       \/ \E h \in Headers,
             ls \in TxLines({<<"1", "/", "0", "1">>}, {DescAbono, DescFecha}, {Cell1234},
                            {Saldo1000}),
             tb \in LinesOf({DescCompra, DescShort}, {Cell1}, {<<>>}),
             tx \in LinesOf({DescText}, {Cell1}, {<<>>}) :
             arg = Pdf(1, h, ls, tb, tx)

ParseBankStatement ==
    /\ ~res.done
    /\ res' = [done |-> TRUE, out |-> parse_bank_statement(arg)]
    /\ UNCHANGED <<arg, now, disk, uploaded_files, mergedCache, loadCache, run,
                   nsaved>>

NextStatement == ParseBankStatement

SpecStatement == InitStatement /\ [][NextStatement]_vars

\* no line of the PDF is matched as a transaction
NothingMatched(pdf) ==
    pdf.kind = "pdf" /\ pdf.lines = <<>> /\ pdf.table = <<>> /\ pdf.text = <<>>

\* C14: a readable PDF in which no transaction line is matched gives, without
\* an exception, a result with an empty movimientos table and the banco that
\* bank detection finds in the header text.
C14_EmptyStatement ==
    (res.done /\ NothingMatched(arg)) =>
        /\ ~Raised(res.out)
        /\ res.out.movimientos = <<>>
        /\ res.out.banco = _detect_bank(HeaderText(arg))

C14_Witness ==
    /\ res.done
    /\ NothingMatched(arg)
    /\ arg.header = <<"B", "a", "n", "c", "o", " ", "D", "a", "v", "i", "v", "i", "e", "n", "d", "a">>
    /\ res.out = [banco |-> "Davivienda", movimientos |-> <<>>]

\* the usable rows of the two generic strategies
TableRows(pdf) == _normalize_from_table(pdf.table, pdf.cols)

TextRows(pdf) == _normalize_from_text(pdf.text)

\* C20: for a PDF of another bank than Bancolombia the result holds the rows
\* of the table strategy or of the text strategy, in either case at least 2
\* of them, and those of the text strategy only when the table strategy has
\* fewer than 2 usable rows
C20_StrategyOrder ==
    (res.done /\ arg.kind = "pdf" /\ arg.pages > 0
       /\ _detect_bank(HeaderText(arg)) # "Bancolombia") =>
        LET mov == res.out.movimientos
        IN  mov # <<>> =>
              /\ Len(mov) >= 2
              /\ \/ mov = TableRows(arg)
                 \/ mov = TextRows(arg) /\ Len(TableRows(arg)) < 2

(***************************************************************************)
(* bank_analyzer.py: the spreadsheet parsers on a sheet                    *)
(* A sheet is its rows, a row its four cells as text (read with dtype=str  *)
(* and fillna("")).                                                         *)
(***************************************************************************)

\* lines 414-417 and 589-590: the cells that are not blank, joined
row_joined(row) ==
    Join(SelectSeq([i \in 1..Len(row) |-> strip(row[i])],
                   LAMBDA c : c # <<>> /\ c # <<"n", "a", "n">>))

\* lines 422-423
BancolombiaHeaderKeywords ==
    {<<"F", "E", "C", "H", "A">>, <<"D", "E", "S", "C", "R", "I", "P", "C", "I">>, <<"V", "A", "L", "O", "R">>, <<"S", "A", "L", "D", "O">>, <<"A", "B", "O", "N", "O">>, <<"C", "A", "R", "G", "O">>,
     <<"R", "E", "F", "E", "R", "E", "N", "C", "I", "A">>}

\* lines 592-593
GenericHeaderKeywords ==
    {<<"F", "E", "C", "H", "A">>, <<"D", "E", "S", "C", "R", "I", "P", "C", "I">>, <<"V", "A", "L", "O", "R">>, <<"S", "A", "L", "D", "O">>, <<"D", "E'", "B", "I", "T", "O">>,
     <<"C", "R", "E'", "D", "I", "T", "O">>, <<"A", "B", "O", "N", "O">>, <<"C", "A", "R", "G", "O">>}

\* lines 422-424 and 592-594
kw_hits(row, kws) ==
    Cardinality({k \in kws : Contains(upper(row_joined(row)), k)})

col_header_row_any_keyword(raw, kws) ==
    IF \E i \in 1..Len(raw) : kw_hits(raw[i], kws) >= 1
    THEN CHOOSE i \in 1..Len(raw) :
             /\ kw_hits(raw[i], kws) >= 1
             /\ \A j \in 1..(i - 1) : kw_hits(raw[j], kws) < 1
    ELSE 0

\* lines 413-427 and 588-597: the 1-based number of the header row, 0 for
\* None
col_header_row(raw, kws) ==
    IF \E i \in 1..Len(raw) : kw_hits(raw[i], kws) >= 2
    THEN CHOOSE i \in 1..Len(raw) :
             /\ kw_hits(raw[i], kws) >= 2
             /\ \A j \in 1..(i - 1) : kw_hits(raw[j], kws) < 2
    ELSE 0

\* lines 460-465 and 337-342: the first column that holds the first keyword
\* found in any column, 0 for None
_find_col(columns, kws) ==
    IF \E k \in 1..Len(kws), c \in 1..Len(columns) : Contains(columns[c], kws[k])
    THEN LET k == CHOOSE k \in 1..Len(kws) :
                      /\ \E c \in 1..Len(columns) : Contains(columns[c], kws[k])
                      /\ \A j \in 1..(k - 1), c \in 1..Len(columns) :
                             ~Contains(columns[c], kws[j])
         IN  CHOOSE c \in 1..Len(columns) :
                 /\ Contains(columns[c], kws[k])
                 /\ \A d \in 1..(c - 1) : ~Contains(columns[d], kws[k])
    ELSE 0

\* row.get(col, ""), the empty text for a column that was not found
CellAt(row, col) == IF col = 0 THEN <<>> ELSE row[col]

\* lines 407-535: one sheet of _parse_bancolombia_excel
BancolombiaSheet(raw) ==
    LET h == col_header_row(raw, BancolombiaHeaderKeywords)
    IN  IF h = 0 THEN <<>>
        ELSE
        LET columns   == [i \in 1..Len(raw[h]) |-> upper(strip(raw[h][i]))]
            fecha_col == _find_col(columns, <<<<"F", "E", "C", "H", "A">>>>)
            desc_col  == _find_col(columns, <<<<"D", "E", "S", "C", "R", "I", "P", "C", "I">>, <<"C", "O", "N", "C", "E", "P", "T", "O">>,
                                              <<"M", "O", "V", "I", "M", "I", "E", "N", "T", "O">>, <<"D", "E", "T", "A", "L", "L", "E">>>>)
            abono_col == _find_col(columns, <<<<"A", "B", "O", "N", "O">>, <<"C", "R", "E'", "D", "I", "T", "O">>,
                                              <<"C", "R", "E", "D", "I", "T", "O">>, <<"I", "N", "G", "R", "E", "S", "O">>>>)
            cargo_col == _find_col(columns, <<<<"C", "A", "R", "G", "O">>, <<"D", "E'", "B", "I", "T", "O">>,
                                              <<"D", "E", "B", "I", "T", "O">>, <<"E", "G", "R", "E", "S", "O">>>>)
            valor_col == IF abono_col = 0 /\ cargo_col = 0
                         THEN _find_col(columns, <<<<"V", "A", "L", "O", "R">>>>) ELSE 0
            df_data   == SubSeq(raw, h + 1, Len(raw))
            dated     == SelectSeq(df_data, LAMBDA row :
                             upper(strip(CellAt(row, fecha_col)))
                                 \notin {<<>>, <<"F", "E", "C", "H", "A">>, <<"N", "A", "N">>})
            cols      == {c \in {"debito", "credito", "valor"} :
                             \/ c = "debito" /\ cargo_col # 0
                             \/ c = "credito" /\ abono_col # 0
                             \/ c = "valor" /\ valor_col # 0}
            lines     == [i \in 1..Len(dated) |->
                             [desc |-> CellAt(dated[i], desc_col),
                              c1 |-> IF cargo_col # 0 THEN dated[i][cargo_col]
                                     ELSE CellAt(dated[i], valor_col),
                              c2 |-> CellAt(dated[i], abono_col)]]
        IN  IF fecha_col = 0 THEN <<>> ELSE ExcelRows(lines, cols)

\* lines 583-618 with _normalize_from_table, lines 335-352: one sheet of
\* _parse_excel_generic; without a header row the first row is the header
GenericSheet(raw) ==
    LET found   == col_header_row(raw, GenericHeaderKeywords)
        h       == IF found = 0 THEN 1 ELSE found
        df_data == SubSeq(raw, h + 1, Len(raw))
    IN  IF Len(df_data) < 2 THEN <<>>
        ELSE
        LET columns == [i \in 1..Len(raw[h]) |-> strip(lower(raw[h][i]))]
            found_d == _find_col(columns, <<<<"d", "e", "s", "c", "r", "i", "p", "c", "i", "o", "n">>, <<"c", "o", "n", "c", "e", "p", "t", "o">>,
                                            <<"d", "e", "t", "a", "l", "l", "e">>, <<"m", "o", "v", "i", "m", "i", "e", "n", "t", "o">>>>)
            desc_s  == IF found_d = 0 /\ Len(columns) > 1 THEN 2 ELSE found_d
            deb_s   == _find_col(columns, <<<<"d", "e", "b", "i", "t", "o">>, <<"e", "g", "r", "e", "s", "o">>, <<"c", "a", "r", "g", "o">>,
                                            <<"r", "e", "t", "i", "r", "o">>>>)
            cred_s  == _find_col(columns, <<<<"c", "r", "e", "d", "i", "t", "o">>, <<"i", "n", "g", "r", "e", "s", "o">>, <<"a", "b", "o", "n", "o">>>>)
            cols    == {c \in {"debito", "credito"} :
                           \/ c = "debito" /\ deb_s # 0
                           \/ c = "credito" /\ cred_s # 0}
            lines   == [i \in 1..Len(df_data) |->
                           [desc |-> CellAt(df_data[i], desc_s),
                            c1 |-> CellAt(df_data[i], deb_s),
                            c2 |-> CellAt(df_data[i], cred_s)]]
        IN  _normalize_from_table(lines, cols)

(***************************************************************************)
(* The spreadsheet parsers applied to sheets of up to MaxSheet rows        *)
(***************************************************************************)
MaxSheet == 4

BlankRow == <<<<>>, <<>>, <<>>, <<>>>>

\* a title with one header keyword
TitleSaldo == <<<<"S", "a", "l", "d", "o", " ", "f", "i", "n", "a", "l">>, <<>>, <<"9">>, <<>>>>

\* a row above the header that reads like a transaction
RowAbove == <<<<"0", "1", "/", "0", "1", "/", "2", "0", "2", "4">>, <<"A", "R", "R", "I", "B", "A">>, <<"7">>, <<"7">>>>

HeaderValor == <<<<"F", "e", "c", "h", "a">>, <<"D", "e", "s", "c", "r", "i", "p", "c", "i", "o", "n">>, <<"V", "a", "l", "o", "r">>, <<"S", "a", "l", "d", "o">>>>

HeaderCargos == <<<<"F", "E", "C", "H", "A">>, <<"D", "E", "S", "C", "R", "I", "P", "C", "I", "O", "N">>, <<"C", "A", "R", "G", "O", "S">>, <<"A", "B", "O", "N", "O", "S">>>>

RowCompra == <<<<"0", "2", "/", "0", "1", "/", "2", "0", "2", "4">>, <<"C", "O", "M", "P", "R", "A">>, <<"1">>, <<>>>>

RowIngreso == <<<<"0", "4", "/", "0", "1", "/", "2", "0", "2", "4">>, <<"I", "N", "G", "R", "E", "S", "O">>, <<>>, <<"3">>>>

BankSheetRows ==
    {BlankRow, TitleSaldo, RowAbove, HeaderValor, HeaderCargos, RowCompra,
     RowIngreso}

InitSheet ==
    /\ InitUpload
    /\ res = [done |-> FALSE, rows |-> <<>>]
    /\ \E p \in {"bancolombia_excel", "excel_generic"}, n \in 0..MaxSheet :
          \E raw \in [1..n -> BankSheetRows] : arg = [parser |-> p, raw |-> raw]

ParseBancolombiaSheet == Emit("bancolombia_excel", BancolombiaSheet(arg.raw))

ParseGenericSheet == Emit("excel_generic", GenericSheet(arg.raw))

NextSheet ==
    \/ ParseBancolombiaSheet
    \/ ParseGenericSheet

SpecSheet == InitSheet /\ [][NextSheet]_vars

\* the keywords of the parser of the sheet at hand
KeywordsOf(parser) ==
    IF parser = "bancolombia_excel" THEN BancolombiaHeaderKeywords
    ELSE GenericHeaderKeywords

\* the first row with two or more header keywords, 0 when there is none
FirstHeader(raw, kws) ==
    IF \E i \in 1..Len(raw) : kw_hits(raw[i], kws) >= 2
    THEN CHOOSE i \in 1..Len(raw) :
             kw_hits(raw[i], kws) >= 2 /\ \A j \in 1..(i - 1) : kw_hits(raw[j], kws) < 2
    ELSE 0

\* the row has a date, a description of 3 characters or more and an amount
\* in the third column (VALOR or CARGOS in the headers drawn)
Transaction(row) ==
    /\ row[1] \notin {<<>>, <<"F", "E", "C", "H", "A">>, <<"F", "e", "c", "h", "a">>}
    /\ Len(strip(row[2])) >= 3
    /\ Amount(row[3]) > 0

\* C21: in a sheet with a header row (the first row with two or more header
\* keywords) every emitted row is a row below the header, and when the row
\* right after the header is a transaction it is the first emitted row (for
\* the generic parser: in a sheet with two or more rows below the header)
C21_DataAfterHeader ==
    (res.done /\ FirstHeader(arg.raw, KeywordsOf(arg.parser)) > 0) =>
        LET h == FirstHeader(arg.raw, KeywordsOf(arg.parser))
            below == SubSeq(arg.raw, h + 1, Len(arg.raw))
        IN  /\ \A i \in 1..Len(res.rows) :
                  \E j \in 1..Len(below) : strip(below[j][2]) = res.rows[i].descripcion
            /\ Len(res.rows) <= Len(below)
            /\ (/\ below # <<>>
                /\ Transaction(below[1])
                /\ arg.parser = "excel_generic" => Len(below) >= 2)
               => /\ res.rows # <<>>
                  /\ res.rows[1].descripcion = strip(below[1][2])

C21_Witness ==
    /\ res.done
    /\ arg.raw = <<BlankRow, RowAbove, HeaderCargos, RowCompra>>
    /\ arg.parser = "bancolombia_excel"
    /\ Len(res.rows) = 1
    /\ res.rows[1].descripcion = <<"C", "O", "M", "P", "R", "A">>

(***************************************************************************)
(* _parse_bancolombia_excel on sheets of a header row and up to            *)
(* MaxSheet - 1 dated rows with signed, parenthesized and plain values     *)
(***************************************************************************)
HeaderMixed == <<<<"F", "E", "C", "H", "A">>, <<"D", "E", "S", "C", "R", "I", "P", "C", "I", "O", "N">>, <<"V", "A", "L", "O", "R">>, <<"C", "A", "R", "G", "O", "S">>>>

ValueRows ==
    {<<<<"0", "2", "/", "0", "1", "/", "2", "0", "2", "4">>, <<"C", "O", "M", "P", "R", "A">>, <<"1">>, <<>>>>,
     <<<<"0", "2", "/", "0", "1", "/", "2", "0", "2", "4">>, <<"A", "B", "O", "N", "O">>, <<"1">>, <<>>>>,
     <<<<"0", "2", "/", "0", "1", "/", "2", "0", "2", "4">>, <<"C", "O", "M", "P", "R", "A">>, <<"-", "5">>, <<>>>>,
     <<<<"0", "2", "/", "0", "1", "/", "2", "0", "2", "4">>, <<"A", "B", "O", "N", "O">>, <<"(", "2", "3", ")">>, <<>>>>,
     <<<<"0", "2", "/", "0", "1", "/", "2", "0", "2", "4">>, <<"C", "O", "M", "P", "R", "A">>, <<"4">>, <<"2">>>>,
     <<<<"0", "2", "/", "0", "1", "/", "2", "0", "2", "4">>, <<"C", "O", "M", "P", "R", "A">>, <<>>, <<>>>>,
     <<<<"0", "2", "/", "0", "1", "/", "2", "0", "2", "4">>, <<"N", "C">>, <<"1">>, <<>>>>}

InitSign ==
    /\ InitUpload
    /\ res = [done |-> FALSE, rows |-> <<>>]
    /\ \E header \in {HeaderValor, HeaderCargos, HeaderMixed}, n \in 0..(MaxSheet - 1) :
          \E data \in [1..n -> ValueRows] :
              arg = [parser |-> "bancolombia_excel", raw |-> <<header>> \o data]

SpecSign == InitSign /\ [][ParseBancolombiaSheet]_vars

HasCol(header, kw) == \E c \in 1..Len(header) : Contains(upper(header[c]), kw)

ColOf(header, kw) == CHOOSE c \in 1..Len(header) : Contains(upper(header[c]), kw)

\* the row that the priority order gives for a dated row under a header:
\* both columns, else the value column, else none; a row without an amount
\* gives none
Resolved(header, row) ==
    LET desc == strip(row[2])
    IN  IF HasCol(header, <<"C", "A", "R", "G", "O">>) /\ HasCol(header, <<"A", "B", "O", "N", "O">>)
        THEN LET debito  == Amount(row[ColOf(header, <<"C", "A", "R", "G", "O">>)])
                 credito == Amount(row[ColOf(header, <<"A", "B", "O", "N", "O">>)])
             IN  IF debito = 0 /\ credito = 0 THEN <<>>
                 ELSE <<Row(desc, debito, credito)>>
        ELSE IF HasCol(header, <<"V", "A", "L", "O", "R">>)
        THEN LET cell  == row[ColOf(header, <<"V", "A", "L", "O", "R">>)]
                 paren == Contains(cell, <<"(">>)
                 minus == Contains(cell, <<"-">>)
                 v     == Amount(SelectSeq(cell, LAMBDA ch : ch \notin {"(", ")", "-"}))
             IN  IF v = 0 THEN <<>>
                 ELSE IF paren \/ minus THEN <<Row(desc, v, 0)>>
                 ELSE IF \E k \in ExcelCreditKeywords : Contains(upper(desc), k)
                 THEN <<Row(desc, 0, v)>>
                 ELSE <<Row(desc, v, 0)>>
        ELSE <<>>

\* C22: the rows emitted for a sheet are, in order, the rows that the
\* priority order resolves: debit and credit read from their columns when
\* both are present, else the value column split by sign and credit phrase,
\* and a row is dropped only when neither is present or it has no amount
C22_SignPriority ==
    res.done =>
        LET header == arg.raw[1]
            data   == Tail(arg.raw)
        IN  res.rows = Flatten([i \in 1..Len(data) |-> Resolved(header, data[i])])

(***************************************************************************)
(* build_bank_fiscal_report: src/bank_analyzer.py lines 784-854            *)
(***************************************************************************)

\* lines 91-104 (the multiplication sign of the first label is written x)
CATEGORY_LABELS ==
    [c \in {"gmf_4x1000", "interes_pago", "interes_rcdo", "retencion",
            "parafiscal", "nomina", "impuesto", "ingreso", "retiro",
            "transferencia", "comision", "otro"} |->
        CASE c = "gmf_4x1000" -> <<"G", "M", "F", " ", "/", " ", "4", "x", "1", "0", "0", "0">>
          [] c = "interes_pago" -> <<"I", "n", "t", "e", "r", "e", "s", "e", "s", " ", "P", "a", "g", "a", "d", "o", "s">>
          [] c = "interes_rcdo" -> <<"I", "n", "t", "e", "r", "e", "s", "e", "s", " ", "R", "e", "c", "i", "b", "i", "d", "o", "s">>
          [] c = "retencion" -> <<"R", "e", "t", "e", "n", "c", "i", "o", "n", "e", "s">>
          [] c = "parafiscal" -> <<"P", "a", "r", "a", "f", "i", "s", "c", "a", "l", "e", "s">>
          [] c = "nomina" -> <<"N", "o'", "m", "i", "n", "a">>
          [] c = "impuesto" -> <<"I", "m", "p", "u", "e", "s", "t", "o", "s">>
          [] c = "ingreso" -> <<"I", "n", "g", "r", "e", "s", "o", "s", " ", "/", " ", "P", "a", "g", "o", "s", " ", "Q", "R">>
          [] c = "retiro" -> <<"R", "e", "t", "i", "r", "o", "s", " ", "/", " ", "P", "a", "g", "o", "s", " ", "T", "a", "r", "j", "e", "t", "a">>
          [] c = "transferencia" -> <<"T", "r", "a", "n", "s", "f", "e", "r", "e", "n", "c", "i", "a", "s">>
          [] c = "comision" -> <<"C", "o", "m", "i", "s", "i", "o", "n", "e", "s", " ", "B", "a", "n", "c", "a", "r", "i", "a", "s">>
          [] c = "otro" -> <<"O", "t", "r", "o", "s", " ", "M", "o", "v", "i", "m", "i", "e", "n", "t", "o", "s">>]

\* lines 790-796: the report of an empty input; an empty table is <<>>
empty_rpt ==
    [total_gmf |-> 0, total_interes_pago |-> 0, total_interes_rcdo |-> 0,
     total_retenciones |-> 0, total_parafiscales |-> 0, total_impuestos |-> 0,
     total_comisiones |-> 0, total_ingresos |-> 0, total_egresos |-> 0,
     resumen_categoria |-> <<>>, timeline |-> <<>>]

RECURSIVE SumWhere_first(_, _, _, _)
SumWhere_first(rows, col, key, val) ==
    IF rows = <<>> THEN 0
    ELSE IF rows[1][key] = val THEN rows[1][col]
    ELSE SumWhere_first(Tail(rows), col, key, val)

\* lines 804, 823 and 842-843: the sum of a column over the rows whose key
\* column holds a value
RECURSIVE SumWhere(_, _, _, _)
SumWhere(rows, col, key, val) ==
    IF rows = <<>> THEN 0
    ELSE (IF rows[1][key] = val THEN rows[1][col] ELSE 0)
         + SumWhere(Tail(rows), col, key, val)

\* lines 801-804
_sum_cat(movimientos, cat, col) == SumWhere(movimientos, col, "categoria", cat)

\* lines 814-815: movimientos[col].sum()
RECURSIVE ColumnSum(_, _)
ColumnSum(rows, col) ==
    IF rows = <<>> THEN 0 ELSE rows[1][col] + ColumnSum(Tail(rows), col)

\* lines 819-827: one row per label with the sums of the label, the larger
\* debit first; rows of equal debit come in an order the sort leaves open
resumen_categoria(movimientos) ==
    LET groups == {[cat_label |-> movimientos[i].cat_label,
                    debito    |-> SumWhere(movimientos, "debito", "cat_label",
                                           movimientos[i].cat_label),
                    credito   |-> SumWhere(movimientos, "credito", "cat_label",
                                           movimientos[i].cat_label)] :
                       i \in 1..Len(movimientos)}
    IN  {s \in [1..Cardinality(groups) -> groups] :
            /\ \A i, j \in 1..Cardinality(groups) : i # j => s[i] # s[j]
            /\ \A i, j \in 1..Cardinality(groups) :
                   i < j => s[i].debito >= s[j].debito}

\* lines 835-836: pd.to_datetime(fecha, dayfirst=True, errors="coerce") on
\* dates written dd/mm/yyyy
fecha_to_datetime(fecha) ==
    to_datetime_dayfirst([i \in 1..Len(fecha) |->
                             IF fecha[i] = "/" THEN "-" ELSE fecha[i]])

\* lines 834-848: the copy _m gets the column mes, the rows without a month
\* are dropped from it, and the rest is summed by month, months ascending
timeline(movimientos) ==
    LET _m     == [i \in 1..Len(movimientos) |->
                      [fecha   |-> fecha_to_datetime(movimientos[i].fecha),
                       mes     |-> Mes(fecha_to_datetime(movimientos[i].fecha)),
                       debito  |-> movimientos[i].debito,
                       credito |-> movimientos[i].credito]]
        kept   == SelectSeq(_m, LAMBDA r : r.mes # <<"N", "a", "T">> /\ r.mes # <<"n", "a", "n">>)
        months == {[mes     |-> kept[i].mes,
                    at      |-> kept[i].fecha[2] * 12 + kept[i].fecha[3],
                    debito  |-> SumWhere(kept, "debito", "mes", kept[i].mes),
                    credito |-> SumWhere(kept, "credito", "mes", kept[i].mes)] :
                       i \in 1..Len(kept)}
        sorted == CHOOSE s \in [1..Cardinality(months) -> months] :
                      \A i, j \in 1..Cardinality(months) : i < j => s[i].at < s[j].at
    IN  IF kept = <<>> THEN <<>>
        ELSE [i \in 1..Len(sorted) |->
                 [mes |-> sorted[i].mes, debito |-> sorted[i].debito,
                  credito |-> sorted[i].credito]]

\* lines 806-816: the scalar totals
totals(movimientos) ==
    [total_gmf          |-> _sum_cat(movimientos, "gmf_4x1000", "debito"),
     total_interes_pago |-> _sum_cat(movimientos, "interes_pago", "debito"),
     total_interes_rcdo |-> _sum_cat(movimientos, "interes_rcdo", "credito"),
     total_retenciones  |-> _sum_cat(movimientos, "retencion", "debito"),
     total_parafiscales |-> _sum_cat(movimientos, "parafiscal", "debito"),
     total_impuestos    |-> _sum_cat(movimientos, "impuesto", "debito"),
     total_comisiones   |-> _sum_cat(movimientos, "comision", "debito"),
     total_ingresos     |-> ColumnSum(movimientos, "credito"),
     total_egresos      |-> ColumnSum(movimientos, "debito")]

\* line 798: the argument None, which is no table
NoFrame == [none |-> TRUE]

\* lines 784-854: the reports the call can return for a table of movements
\* with the columns fecha, categoria, cat_label, debito and credito; None and
\* the table without rows give empty_rpt (lines 798-799)
build_bank_fiscal_report(movimientos) ==
    IF movimientos = NoFrame THEN {empty_rpt}
    ELSE IF movimientos.rows = <<>> THEN {empty_rpt}
    ELSE {totals(movimientos.rows)
             @@ [resumen_categoria |-> resumen,
                 timeline |-> timeline(movimientos.rows)] :
             resumen \in resumen_categoria(movimientos.rows)}

\* the longest table of movements
MaxMov == 2

ReportFechas == {<<"1", "5", "/", "0", "3", "/", "2", "0", "2", "4">>, <<"0", "2", "/", "0", "4", "/", "2", "0", "2", "4">>, <<>>}

ReportCategorias == {"gmf_4x1000", "comision", "otro"}

ReportAmounts == {0, 4000, 7500}

\* the rows the parsers emit: the label is the label of the category (lines
\* 259, 361, 380, 562), amounts are not negative
Movimientos ==
    {[fecha |-> f, categoria |-> c, cat_label |-> CATEGORY_LABELS[c],
      debito |-> d, credito |-> k] :
        f \in ReportFechas, c \in ReportCategorias,
        d \in ReportAmounts, k \in {0, 4000}}

InitReport ==
    /\ InitUpload
    /\ res = [done |-> FALSE, out |-> empty_rpt, movimientos |-> NoFrame]
    /\ \/ arg = [movimientos |-> NoFrame]
       \/ \E n \in 0..MaxMov : \E rows \in [1..n -> Movimientos] :
              arg = [movimientos |-> [rows |-> rows]]

\* the call; the table is only read, the month column is written to the copy
\* _m (line 834), so the table after the call is the table before it
BuildReport ==
    /\ ~res.done
    /\ \E rpt \in build_bank_fiscal_report(arg.movimientos) :
           res' = [done |-> TRUE, out |-> rpt, movimientos |-> arg.movimientos]
    /\ UNCHANGED <<now, disk, uploaded_files, mergedCache, loadCache, run,
                   nsaved, arg>>

SpecReport == InitReport /\ [][BuildReport]_vars

\* the sum of a column of a table
RECURSIVE Total(_, _)
Total(rows, col) ==
    IF rows = <<>> THEN 0 ELSE rows[Len(rows)][col] + Total(SubSeq(rows, 1, Len(rows) - 1), col)

AllDated(rows) == \A i \in 1..Len(rows) : fecha_to_datetime(rows[i].fecha) # NaT

====
